---- MODULE Spec2Model ----
(***************************************************************************)
(* Hook orchestration engine of codex-rs/core/src/hooks:                   *)
(*   - DependencyGraph (dependency.rs): add_hook, has_path,                *)
(*     validate_dependencies, topological_sort / get_ordered_hooks,        *)
(*     get_stats;                                                          *)
(*   - HookManager (manager.rs): trigger_event, execute_hooks,             *)
(*     handle_execution_results;                                           *)
(*   - HookExecutor::execute_with_context (executor.rs): the retry /       *)
(*     timeout / cancellation wrapper;                                     *)
(*   - AggregatedResults (executor.rs): from_results,                      *)
(*     has_critical_failures;                                              *)
(*   - ExecutionCoordinator (executor.rs): execute_hooks,                  *)
(*     execute_single_tracked, cancel_execution, cancel_all,               *)
(*     get_active_executions, update_stats, and their locks;               *)
(*   - ChainExecutor::execute_chain (chaining.rs);                         *)
(*   - HookDashboard (dashboard.rs): update_system_status,                 *)
(*     add_dashboard_event, update_config.                                 *)
(* Each component has its own specifications (SpecGraph, SpecPlan,         *)
(* SpecOrder, SpecStats, SpecEvents, SpecManager, SpecExec, SpecAggregate, *)
(* SpecCoordinator, SpecIsolated, SpecLocks, SpecTracked, SpecChain,       *)
(* SpecDashboard); the variables of the other components stay at their     *)
(* initial values.                                                         *)
(***************************************************************************)
EXTENDS Integers, Sequences, FiniteSets, TLC

VARIABLES
    \* DependencyGraph
    hooks,          \* id -> HookConfig (event, parallel, priority, depends_on)
    dependencies,   \* id -> Vec of dependency ids (forward edges)
    dependents,     \* id -> Vec of ids that declared it as a dependency
    add_result,     \* the value returned by the last add_hook call
    plan,           \* the value returned by the last get_ordered_hooks call
    adds,           \* number of add_hook calls made so far
    validation,     \* the value returned by the last validate_dependencies call
    graph_stats,    \* the DependencyStats returned by the last get_stats call
    \* HookManager
    enabled,        \* config.hooks.enabled
    registry,       \* the hooks the registry returns for the event, in order
    m_pc,           \* position of trigger_event: "idle", "blocking", "async", "done"
    hook_state,     \* per hook: "pending", "running", "returned"; a fire-and-
                    \* forget hook: "pending", "spawned", "completed"
    hook_success,   \* per hook that returned: result.success
    successful,     \* execute_hooks: Vec of hook descriptions that succeeded
    failed,         \* execute_hooks: Vec of hook descriptions that failed
    trigger_result, \* the value returned by trigger_event
    metrics,        \* the manager's HookExecutionMetrics field
    \* HookExecutor::execute_with_context
    config,         \* exec_context.config: max_retries, retry_delay
    capability,     \* what the k-th call of execute does within its timeout
    cancelled,      \* exec_context.cancelled, the shared cancellation flag
    x_pc,           \* position: "idle", "check", "attempt", "sleep", "done"
    retry_attempts, \* the local of the retry loop
    last_error,     \* the local of the retry loop
    call_count,     \* number of calls of the capability's execute
    timeout_armed,  \* the attempt in progress is raced against the timeout
    x_result,       \* the ExecutionResult returned
    \* AggregatedResults
    results,        \* the Vec<ExecutionResult> handed to from_results
    aggregated,     \* the AggregatedResults returned by from_results
    \* ExecutionCoordinator
    executions,        \* the batch handed to execute_hooks, in input order
    c_pc,              \* position of execute_hooks: "idle", "blocking", "async", "done"
    c_state,           \* per entry: "pending", "running", "returned"; a fire-and-
                       \* forget entry: "pending", "spawned", "running", "returned"
    flags,             \* per entry: its context's shared cancellation flag
    active_executions, \* execution id -> the entry whose context is registered
    all_results,       \* execute_hooks: all_results
    async_results,     \* per Async entry that returned: its result
    stats,             \* the global ExecutionStats
    c_aggregated,      \* the AggregatedResults returned by execute_hooks
    cancel_call,       \* the last cancel_execution / cancel_all call and its value
    \* Concurrent operations on clones of one ExecutionCoordinator
    tasks,             \* per task: its operation, its position in it, the
                       \* locks it holds and its locals
    \* ChainExecutor::execute_chain
    chain_config,      \* self.config: continue_on_failure, max_chain_length,
                       \* preserve_intermediate_results
    chain_hooks,       \* the hooks handed to execute_chain: what each returns
    chain_pc,          \* position of execute_chain: "idle", "running", "done"
    context,           \* the ChainContext: data, current_index, previous_results
    chain_results,     \* the local results
    terminated_early,  \* the local terminated_early
    chain_calls,       \* the hooks whose execute_with_chain_context was called
    chain_result,      \* the value returned by execute_chain
    \* execute_single_tracked around one execute_with_context
    tracked,           \* its position, and whether the context runs isolated
    t_result,          \* the ExecutionResult it returns
    \* HookDashboard
    status_tracker,    \* the StatusTracker behind the RwLock: system_status,
                       \* recent_events, and the state of the lock itself
    dashboard_config,  \* config: max_recent_events
    d_pc,              \* position of update_system_status
    d_metrics,         \* what metrics_collector.get_metrics() returns to the call
    d_new_status,      \* the local new_status
    d_result           \* the way the call ended

gvars == <<hooks, dependencies, dependents, add_result, plan, adds, validation,
           graph_stats>>

mvars == <<enabled, registry, m_pc, hook_state, hook_success, successful, failed,
           trigger_result, metrics>>

xvars == <<config, capability, cancelled, x_pc, retry_attempts, last_error,
           call_count, timeout_armed, x_result>>

avars == <<results, aggregated>>

cvars == <<executions, c_pc, c_state, flags, active_executions, all_results,
           async_results, stats, c_aggregated, cancel_call>>

lvars == <<tasks>>

hvars == <<chain_config, chain_hooks, chain_pc, context, chain_results,
           terminated_early, chain_calls, chain_result>>

tvars == <<tracked, t_result>>

dvars == <<status_tracker, dashboard_config, d_pc, d_metrics, d_new_status, d_result>>

vars == <<gvars, mvars, xvars, avars, cvars, lvars, hvars, tvars, dvars>>

(***************************************************************************)
(* Bounds and input domains                                                *)
(***************************************************************************)
MaxAdds == 4

MaxRetries == 2

MaxResults == 3

MaxBatch == 2

MaxChain == 3

MaxRecentEvents == 2

HookIds == {"h1", "h2", "h3"}

Events == {"SessionStart", "TaskStart"}

Priorities == {1, 2}

\* Dependency lists of the hooks that are added: empty, one id, two ids
\* (the two ids may be the same one).
DepLists ==
    {<<>>} \cup {<<a>> : a \in HookIds} \cup {<<a, b>> : a \in HookIds, b \in HookIds}

ShortDepLists == {<<>>} \cup {<<a>> : a \in HookIds}

\* Inputs of add_hook when only the edges matter (SpecGraph).
GraphConfigs ==
    [id : HookIds, event : {"SessionStart"}, parallel : {TRUE}, priority : {1},
     depends_on : DepLists]

\* Inputs of add_hook when the execution plan matters (SpecPlan).
PlanConfigs ==
    [id : HookIds, event : Events, parallel : BOOLEAN, priority : {1},
     depends_on : ShortDepLists]

\* Inputs of add_hook when the depth of the graph matters (SpecStats): a
\* fourth id, and some lists of two different ids.
StatsIds == HookIds \cup {"h4"}

StatsDepLists ==
    {<<>>} \cup {<<a>> : a \in StatsIds}
           \cup {<<"h1", "h2">>, <<"h2", "h3">>, <<"h3", "h2">>}

StatsConfigs ==
    [id : StatsIds, event : {"SessionStart"}, parallel : {TRUE}, priority : {1},
     depends_on : StatsDepLists]

\* Inputs of add_hook when the event of a dependency matters (SpecEvents):
\* lists that name h1, or h1 and h2, with every hook free to be stored for
\* either event.
EventDepLists == {<<>>, <<"h1">>, <<"h1", "h2">>}

EventConfigs ==
    [id : HookIds, event : Events, parallel : BOOLEAN, priority : {1},
     depends_on : EventDepLists]

\* Inputs of add_hook when the order inside the plan matters (SpecOrder).
OrderDepLists == {<<>>, <<"h1">>, <<"h2">>}

OrderConfigs ==
    [id : HookIds, event : {"SessionStart"}, parallel : BOOLEAN, priority : Priorities,
     depends_on : OrderDepLists]

NoResult == [kind |-> "None"]

\* Option<String>
None == [is_some |-> FALSE, text |-> <<>>]

Some(text) == [is_some |-> TRUE, text |-> text]

Ok == [kind |-> "Ok"]

(***************************************************************************)
(* Helpers on sequences                                                    *)
(***************************************************************************)
Range(s) == {s[i] : i \in 1..Len(s)}

Count(s, x) == Cardinality({i \in 1..Len(s) : s[i] = x})

Get(map, key) == IF key \in DOMAIN map THEN map[key] ELSE <<>>

Insert(map, key, value) ==
    [k \in DOMAIN map \cup {key} |-> IF k = key THEN value ELSE map[k]]

(***************************************************************************)
(* DependencyGraph::has_path: breadth-first search over the forward edges  *)
(***************************************************************************)
RECURSIVE has_path_search(_, _, _, _)
has_path_search(deps_map, queue, visited, end) ==
    IF queue = <<>> THEN FALSE
    ELSE LET current == Head(queue)
             rest == Tail(queue)
         IN  IF current \in visited THEN has_path_search(deps_map, rest, visited, end)
             ELSE LET deps == Get(deps_map, current)
                      seen == visited \cup {current}
                  IN  IF end \in Range(deps) THEN TRUE
                      ELSE has_path_search(deps_map,
                               rest \o SelectSeq(deps, LAMBDA d : d \notin seen),
                               seen, end)

has_path_no_self(deps_map, start, end) ==
    has_path_search(deps_map, <<start>>, {}, end)

has_path(deps_map, start, end) ==
    IF start = end THEN TRUE
    ELSE has_path_search(deps_map, <<start>>, {}, end)

would_create_cycle(deps_map, from_hook, to_hook) == has_path(deps_map, to_hook, from_hook)

\* The first dependency (in list order) that would close a cycle, as an index
\* into new_deps; 0 when there is none.
first_cycle_dep(deps_map, hook_id, new_deps) ==
    LET bad == {i \in 1..Len(new_deps) : would_create_cycle(deps_map, hook_id, new_deps[i])}
    IN  IF bad = {} THEN 0 ELSE CHOOSE i \in bad : \A j \in bad : i <= j

validate_no_cycles_first_only(deps_map, hook_id, new_deps) ==
    IF Len(new_deps) > 0 /\ would_create_cycle(deps_map, hook_id, new_deps[1])
    THEN [kind |-> "Configuration", dep |-> new_deps[1], hook |-> hook_id]
    ELSE Ok

validate_no_cycles(deps_map, hook_id, new_deps) ==
    LET i == first_cycle_dep(deps_map, hook_id, new_deps)
    IN  IF i = 0 THEN Ok
        ELSE [kind |-> "Configuration", dep |-> new_deps[i], hook |-> hook_id]

(***************************************************************************)
(* DependencyGraph::add_hook                                               *)
(***************************************************************************)
\* dependents after pushing hook_id onto the entry of every dependency, in
\* list order (one push per declared occurrence).
RECURSIVE push_dependents(_, _, _)
push_dependents(rev, hook_id, deps) ==
    IF deps = <<>> THEN rev
    ELSE push_dependents(Insert(rev, Head(deps), Append(Get(rev, Head(deps)), hook_id)),
                         hook_id, Tail(deps))

store_hook(hook) ==
    /\ hooks' = Insert(hooks, hook.id, hook)
    /\ dependencies' = Insert(dependencies, hook.id, hook.depends_on)
    /\ dependents' = push_dependents(dependents, hook.id, hook.depends_on)

add_hook_store_first(hook) ==
    /\ adds < MaxAdds
    /\ adds' = adds + 1
    /\ plan' = NoResult
    /\ validation' = NoResult
    /\ graph_stats' = NoResult
    /\ add_result' = validate_no_cycles(dependencies, hook.id, hook.depends_on)
    /\ hooks' = Insert(hooks, hook.id, hook)
    /\ IF add_result'.kind = "Ok"
       THEN /\ dependencies' = Insert(dependencies, hook.id, hook.depends_on)
            /\ dependents' = push_dependents(dependents, hook.id, hook.depends_on)
       ELSE UNCHANGED <<dependencies, dependents>>
    /\ UNCHANGED <<mvars, xvars, avars, cvars, lvars, hvars, tvars, dvars>>

add_hook(hook) ==
    /\ adds < MaxAdds
    /\ adds' = adds + 1
    /\ plan' = NoResult
    /\ validation' = NoResult
    /\ graph_stats' = NoResult
    /\ add_result' = validate_no_cycles(dependencies, hook.id, hook.depends_on)
    /\ IF add_result'.kind = "Ok"
       THEN store_hook(hook)
       ELSE UNCHANGED <<hooks, dependencies, dependents>>
    /\ UNCHANGED <<mvars, xvars, avars, cvars, lvars, hvars, tvars, dvars>>

(***************************************************************************)
(* DependencyGraph::topological_sort / get_ordered_hooks                   *)
(***************************************************************************)
event_hooks_unfiltered(event_type) == DOMAIN hooks

\* hooks.values().filter(|hook| hook.event == event_type)
event_hooks(event_type) == {id \in DOMAIN hooks : hooks[id].event = event_type}

deps_in_set_unfiltered(id, set) == Len(hooks[id].depends_on)

\* Count dependencies that are in the current hook set (one per list entry).
deps_in_set(id, set) ==
    Cardinality({i \in 1..Len(hooks[id].depends_on) : hooks[id].depends_on[i] \in set})

initial_in_degree(set) == [id \in set |-> deps_in_set(id, set)]

saturating_sub(n, k) == IF n > k THEN n - k ELSE 0

\* in_degree after the ready hooks were removed and every entry of their
\* dependents lists that is still in the map was decremented once.
RECURSIVE SumOver(_, _)
SumOver(f, S) ==
    IF S = {} THEN 0
    ELSE LET x == CHOOSE y \in S : TRUE IN f[x] + SumOver(f, S \ {x})

decrement_dependents(in_degree, ready) ==
    LET left == DOMAIN in_degree \ ready
    IN  [id \in left |->
            saturating_sub(in_degree[id],
                SumOver([r \in ready |-> Count(Get(dependents, r), id)], ready))]

\* All orders of the set S that a stable sort by priority can return, the
\* order before the sort being the iteration order of a HashMap.
sort_by_priority(S) ==
    {p \in [1..Cardinality(S) -> S] :
        /\ \A i, j \in 1..Cardinality(S) : i # j => p[i] # p[j]
        /\ \A i, j \in 1..Cardinality(S) :
              i < j => hooks[p[i]].priority <= hooks[p[j]].priority}

\* One round that emits the sequential hooks before the parallel group.
round_levels_sequential_first(ready) ==
    LET parallel_group == {id \in ready : hooks[id].parallel}
        sequential_hooks == ready \ parallel_group
    IN  {[i \in 1..Len(sq) |-> <<sq[i]>>]
            \o (IF parallel_group = {} THEN <<>> ELSE <<pg>>) :
         pg \in sort_by_priority(parallel_group),
         sq \in sort_by_priority(sequential_hooks)}

\* The levels one round of the loop adds: the parallel group as one level
\* (if not empty), then every sequential hook as a level of its own.
round_levels(ready) ==
    LET parallel_group == {id \in ready : hooks[id].parallel}
        sequential_hooks == ready \ parallel_group
    IN  {(IF parallel_group = {} THEN <<>> ELSE <<pg>>)
            \o [i \in 1..Len(sq) |-> <<sq[i]>>] :
         pg \in sort_by_priority(parallel_group),
         sq \in sort_by_priority(sequential_hooks)}

\* The set of values topological_sort can return from the given loop state.
RECURSIVE topological_sort_loop(_, _)
topological_sort_loop(in_degree, result) ==
    IF DOMAIN in_degree = {} THEN {[kind |-> "Ok", levels |-> result]}
    ELSE LET ready_hooks == {id \in DOMAIN in_degree : in_degree[id] = 0}
         IN  IF ready_hooks = {}
             THEN {[kind |-> "Configuration", levels |-> <<>>]}
             ELSE UNION {topological_sort_loop(
                             decrement_dependents(in_degree, ready_hooks),
                             result \o current_level) :
                         current_level \in round_levels(ready_hooks)}

topological_sort(set) == topological_sort_loop(initial_in_degree(set), <<>>)

get_ordered_hooks(event_type) ==
    /\ plan' \in
         IF event_hooks(event_type) = {}
         THEN {[kind |-> "Ok", event |-> event_type, levels |-> <<>>]}
         ELSE {[kind |-> r.kind, event |-> event_type, levels |-> r.levels] :
               r \in topological_sort(event_hooks(event_type))}
    /\ UNCHANGED <<hooks, dependencies, dependents, add_result, adds, validation,
                   graph_stats>>
    /\ UNCHANGED <<mvars, xvars, avars, cvars, lvars, hvars, tvars, dvars>>

(***************************************************************************)
(* DependencyGraph::validate_dependencies                                  *)
(***************************************************************************)
\* The (hook, dependency) pairs of the dependencies map whose dependency is
\* not a key of hooks, looking only at the first entry of each list.
missing_first_dependencies ==
    {<<id, dependencies[id][1]>> : id \in {h \in DOMAIN dependencies :
        Len(dependencies[h]) > 0 /\ dependencies[h][1] \notin DOMAIN hooks}}

\* The (hook, dependency) pairs of the dependencies map whose dependency is
\* not a key of hooks.
missing_dependencies ==
    UNION {{<<id, dependencies[id][i]>> : i \in {k \in 1..Len(dependencies[id]) :
                dependencies[id][k] \notin DOMAIN hooks}} : id \in DOMAIN dependencies}

\* The first missing pair met is reported; which one that is depends on the
\* iteration order of the map.
validate_dependencies ==
    /\ validation' \in
         IF missing_dependencies = {} THEN {Ok}
         ELSE {[kind |-> "Configuration", hook |-> m[1], dep |-> m[2]] :
               m \in missing_dependencies}
    /\ UNCHANGED <<hooks, dependencies, dependents, add_result, plan, adds,
                   graph_stats>>
    /\ UNCHANGED <<mvars, xvars, avars, cvars, lvars, hvars, tvars, dvars>>

(***************************************************************************)
(* DependencyGraph::get_stats                                              *)
(***************************************************************************)
visited_remove_skipped(visited, hook_id) == visited

\* visited.remove(hook_id)
visited_remove(visited, hook_id) == visited \ {hook_id}

\* calculate_hook_depth with the visited set it shares with its callers:
\* the value is the depth and the visited set left behind.  deps_depth is
\* its `deps.iter().map(..).max()`, over the list in order.
RECURSIVE calculate_hook_depth(_, _, _), deps_depth(_, _, _, _)
calculate_hook_depth(deps_map, hook_id, visited) ==
    IF hook_id \in visited THEN [depth |-> 0, visited |-> visited]
    ELSE LET deps == Get(deps_map, hook_id)
             entered == visited \cup {hook_id}
         IN  IF deps = <<>> THEN [depth |-> 0, visited |-> entered]
             ELSE LET below == deps_depth(deps_map, deps, entered, 0)
                  IN  [depth |-> below.depth + 1,
                       visited |-> visited_remove(below.visited, hook_id)]

deps_depth(deps_map, deps, visited, max_so_far) ==
    IF deps = <<>> THEN [depth |-> max_so_far, visited |-> visited]
    ELSE LET d == calculate_hook_depth(deps_map, Head(deps), visited)
         IN  deps_depth(deps_map, Tail(deps), d.visited,
                        IF d.depth > max_so_far THEN d.depth ELSE max_so_far)

\* calculate_max_depth: the largest depth over the keys of hooks, each
\* computed with a new visited set.
calculate_max_depth ==
    LET depths == {calculate_hook_depth(dependencies, id, {}).depth : id \in DOMAIN hooks}
    IN  IF depths = {} THEN 0 ELSE CHOOSE d \in depths : \A e \in depths : e <= d

get_stats ==
    /\ graph_stats' =
         [kind |-> "DependencyStats",
          total_hooks |-> Cardinality(DOMAIN hooks),
          hooks_with_dependencies |->
              Cardinality({id \in DOMAIN dependencies : dependencies[id] # <<>>}),
          max_dependency_depth |-> calculate_max_depth]
    /\ UNCHANGED <<hooks, dependencies, dependents, add_result, plan, adds, validation>>
    /\ UNCHANGED <<mvars, xvars, avars, cvars, lvars, hvars, tvars, dvars>>

\* ExecutionStats::default
NoStats ==
    [total_executions |-> 0, successful_executions |-> 0, failed_executions |-> 0,
     cancelled_executions |-> 0, total_execution_time |-> 0, average_execution_time |-> 0]

NoCall == [op |-> "none"]

\* ExecutionCoordinator::new, no batch
InitCoordinatorIdle ==
    /\ executions = <<>>
    /\ c_pc = "idle"
    /\ c_state = <<>>
    /\ flags = <<>>
    /\ active_executions = <<>>
    /\ all_results = <<>>
    /\ async_results = <<>>
    /\ stats = NoStats
    /\ c_aggregated = NoResult
    /\ cancel_call = NoCall
    /\ tasks = <<>>

\* No execute_single_tracked in progress
InitTrackedIdle ==
    /\ tracked = [pc |-> "idle", isolated |-> FALSE]
    /\ t_result = NoResult

\* StatusTracker as HookDashboard::new builds it, the lock free
NewStatusTracker ==
    [system_status |-> "Healthy", recent_events |-> <<>>, lock |-> "free"]

\* DashboardConfig::default, max_recent_events apart (100 in the code); the
\* error rate threshold is in tenths (0.1)
DashboardConfigDefault ==
    [max_recent_events |-> MaxRecentEvents, error_rate_threshold |-> 1]

\* HookDashboard::with_defaults, no call made
InitDashboardIdle ==
    /\ status_tracker = NewStatusTracker
    /\ dashboard_config = DashboardConfigDefault
    /\ d_pc = "idle"
    /\ d_metrics = NoResult
    /\ d_new_status = "none"
    /\ d_result = "none"

\* ChainConfig::default, max_chain_length apart (50 in the code)
ChainConfigDefault ==
    [continue_on_failure |-> FALSE, max_chain_length |-> MaxChain,
     preserve_intermediate_results |-> TRUE]

\* ChainExecutor::default, no chain
InitChainIdle ==
    /\ chain_config = ChainConfigDefault
    /\ chain_hooks = <<>>
    /\ chain_pc = "idle"
    /\ context = NoResult
    /\ chain_results = <<>>
    /\ terminated_early = FALSE
    /\ chain_calls = <<>>
    /\ chain_result = NoResult

InitAggregateIdle ==
    /\ results = <<>>
    /\ aggregated = NoResult

InitExecIdle ==
    /\ config = [max_retries |-> 0, retry_delay |-> 0]
    /\ capability = <<>>
    /\ cancelled = FALSE
    /\ x_pc = "idle"
    /\ retry_attempts = 0
    /\ last_error = [is_some |-> FALSE, text |-> <<>>]
    /\ call_count = 0
    /\ timeout_armed = FALSE
    /\ x_result = NoResult

\* HookExecutionMetrics::default: the counters of the metrics
HookExecutionMetricsDefault ==
    [total_executions |-> 0, successful_executions |-> 0, failed_executions |-> 0]

InitManagerIdle ==
    /\ metrics = HookExecutionMetricsDefault
    /\ enabled = TRUE
    /\ registry = <<>>
    /\ m_pc = "idle"
    /\ hook_state = <<>>
    /\ hook_success = <<>>
    /\ successful = <<>>
    /\ failed = <<>>
    /\ trigger_result = NoResult

\* DependencyGraph::new
InitGraphIdle ==
    /\ hooks = <<>>
    /\ dependencies = <<>>
    /\ dependents = <<>>
    /\ add_result = NoResult
    /\ plan = NoResult
    /\ adds = 0
    /\ validation = NoResult
    /\ graph_stats = NoResult

InitGraph ==
    /\ InitChainIdle
    /\ InitTrackedIdle
    /\ InitDashboardIdle
    /\ InitAggregateIdle
    /\ InitCoordinatorIdle
    /\ InitManagerIdle
    /\ InitExecIdle
    /\ InitGraphIdle

AddHook == \E hook \in GraphConfigs : add_hook(hook)

ValidateDependencies == validate_dependencies

NextGraph == AddHook \/ ValidateDependencies

SpecGraph == InitGraph /\ [][NextGraph]_vars

AddPlanHook == \E hook \in PlanConfigs : add_hook(hook)

GetOrderedHooks == \E event_type \in Events : get_ordered_hooks(event_type)

NextPlan == AddPlanHook \/ GetOrderedHooks

SpecPlan == InitGraph /\ [][NextPlan]_vars

AddOrderHook == \E hook \in OrderConfigs : add_hook(hook)

NextOrder == AddOrderHook \/ GetOrderedHooks

SpecOrder == InitGraph /\ [][NextOrder]_vars

AddEventHook == \E hook \in EventConfigs : add_hook(hook)

NextEvents == AddEventHook \/ GetOrderedHooks

SpecEvents == InitGraph /\ [][NextEvents]_vars

AddStatsHook == \E hook \in StatsConfigs : add_hook(hook)

GetStats == get_stats

NextStats == AddStatsHook \/ GetStats

SpecStats == InitGraph /\ [][NextStats]_vars

(***************************************************************************)
(* HookManager (manager.rs)                                                *)
(***************************************************************************)
\* Texts are sequences of characters.
Required == <<"r", "e", "q", "u", "i", "r", "e", "d">>

DescLint == <<"l", "i", "n", "t">>

DescRequiredTools ==
    <<"c", "h", "e", "c", "k", " ", "r", "e", "q", "u", "i", "r", "e", "d", " ",
      "t", "o", "o", "l", "s">>

\* format!("{:?}", hook.hook_type) of the script hooks of the model.
HookTypeDebug == <<"S", "c", "r", "i", "p", "t">>

Descriptions == {None, Some(DescLint), Some(DescRequiredTools)}

Modes == {"Blocking", "Async", "FireAndForget"}

\* str::contains
contains(text, pattern) ==
    \E i \in 1..(Len(text) - Len(pattern) + 1) :
        SubSeq(text, i, i + Len(pattern) - 1) = pattern

\* The hooks of an event, in the order the registry returns them: a hook
\* depends on nothing or on the hook before it.
ManagerHookIds == <<"h1", "h2", "h3">>

ManagerHook(i) ==
    [id : {ManagerHookIds[i]}, mode : Modes, required : BOOLEAN,
     description : Descriptions,
     depends_on : {<<>>} \cup (IF i > 1 THEN {<<ManagerHookIds[i - 1]>>} ELSE {})]

Registries ==
    {<<>>} \cup {<<a>> : a \in ManagerHook(1)}
           \cup {<<a, b>> : a \in ManagerHook(1), b \in ManagerHook(2)}
           \cup {<<a, b, c>> : a \in ManagerHook(1), b \in ManagerHook(2),
                               c \in ManagerHook(3)}

\* HookRegistry::get_matching_hooks
get_matching_hooks == registry

Indices == 1..Len(registry)

\* HookManager::get_hook_description
get_hook_description(hook) ==
    IF hook.description.is_some THEN hook.description.text
    ELSE HookTypeDebug \o <<" ", "h", "o", "o", "k">>

\* partition3 of execute_hooks, as the indices of each group in input order
blocking_hooks == {i \in Indices : registry[i].mode = "Blocking"}

async_hooks == {i \in Indices : registry[i].mode = "Async"}

fire_and_forget_hooks == {i \in Indices : registry[i].mode = "FireAndForget"}

\* The elements of the index set S in ascending order.
RECURSIVE Ascending(_)
Ascending(S) ==
    IF S = {} THEN <<>>
    ELSE LET m == CHOOSE x \in S : \A y \in S : x <= y IN <<m>> \o Ascending(S \ {m})

\* HookManager::handle_execution_results
handle_execution_results_by_flag(failed_list) ==
    LET critical_failures == SelectSeq(failed_list, LAMBDA r : r.required)
    IN  IF critical_failures # <<>>
        THEN [kind |-> "Execution",
              names |-> [k \in 1..Len(critical_failures) |->
                            critical_failures[k].hook_description]]
        ELSE Ok

handle_execution_results(failed_list) ==
    LET critical_failures ==
            SelectSeq(failed_list, LAMBDA r : contains(r.hook_description, Required))
    IN  IF critical_failures # <<>>
        THEN [kind |-> "Execution",
              names |-> [k \in 1..Len(critical_failures) |->
                            critical_failures[k].hook_description]]
        ELSE Ok

exec_result(i) ==
    [hook_description |-> get_hook_description(registry[i]),
     required |-> registry[i].required]

\* The rest of execute_hooks and trigger_event once the blocking hooks are
\* through and no async hook is left to await: the async results are pushed
\* in input order, the fire-and-forget hooks are spawned, and the results
\* are handled.
finish_trigger(state, success, ok_list, failed_list) ==
    LET order == Ascending(async_hooks)
        ok_async == SelectSeq(order, LAMBDA i : success[i])
        bad_async == SelectSeq(order, LAMBDA i : ~success[i])
        all_failed == failed_list \o [k \in 1..Len(bad_async) |-> exec_result(bad_async[k])]
    IN  /\ successful' = ok_list \o [k \in 1..Len(ok_async) |-> exec_result(ok_async[k])]
        /\ failed' = all_failed
        /\ hook_state' = [i \in Indices |->
                             IF i \in fire_and_forget_hooks THEN "spawned" ELSE state[i]]
        /\ hook_success' = success
        /\ trigger_result' = handle_execution_results(all_failed)
        /\ m_pc' = "done"

\* execute_hooks from the point where the blocking hooks before index `from`
\* are through: run the next blocking hook, or start every async hook
\* (join_all polls them all), or finish.
continue_execute_hooks(from, state, success, ok_list, failed_list) ==
    LET next_blocking == {i \in blocking_hooks : i >= from}
    IN  IF next_blocking # {}
        THEN LET i == CHOOSE x \in next_blocking : \A y \in next_blocking : x <= y
             IN  /\ hook_state' = [state EXCEPT ![i] = "running"]
                 /\ hook_success' = success
                 /\ successful' = ok_list
                 /\ failed' = failed_list
                 /\ m_pc' = "blocking"
                 /\ UNCHANGED trigger_result
        ELSE IF async_hooks # {}
        THEN /\ hook_state' = [i \in Indices |->
                                  IF i \in async_hooks THEN "running" ELSE state[i]]
             /\ hook_success' = success
             /\ successful' = ok_list
             /\ failed' = failed_list
             /\ m_pc' = "async"
             /\ UNCHANGED trigger_result
        ELSE finish_trigger(state, success, ok_list, failed_list)

trigger_event_without_enabled_check ==
    /\ m_pc = "idle"
    /\ IF get_matching_hooks = <<>>
       THEN /\ trigger_result' = Ok
            /\ m_pc' = "done"
            /\ UNCHANGED <<hook_state, hook_success, successful, failed>>
       ELSE continue_execute_hooks(1, hook_state, hook_success, <<>>, <<>>)
    /\ UNCHANGED <<enabled, registry, metrics>>
    /\ UNCHANGED <<gvars, xvars, avars, cvars, lvars, hvars, tvars, dvars>>

\* HookManager::trigger_event up to its first suspension point
trigger_event ==
    /\ m_pc = "idle"
    /\ IF ~enabled \/ get_matching_hooks = <<>>
       THEN /\ trigger_result' = Ok
            /\ m_pc' = "done"
            /\ UNCHANGED <<hook_state, hook_success, successful, failed>>
       ELSE continue_execute_hooks(1, hook_state, hook_success, <<>>, <<>>)
    /\ UNCHANGED <<enabled, registry, metrics>>
    /\ UNCHANGED <<gvars, xvars, avars, cvars, lvars, hvars, tvars, dvars>>

\* A blocking hook that failed: a required one makes execute_hooks (and
\* trigger_event, by `?`) return the error at once.
blocking_failed_continue(i, state, success) ==
    continue_execute_hooks(i + 1, state, success, successful, Append(failed, exec_result(i)))

blocking_failed(i, state, success) ==
    IF registry[i].required
    THEN /\ trigger_result' = [kind |-> "Execution",
                               names |-> <<get_hook_description(registry[i])>>]
         /\ m_pc' = "done"
         /\ failed' = Append(failed, exec_result(i))
         /\ hook_state' = state
         /\ hook_success' = success
         /\ UNCHANGED successful
    ELSE continue_execute_hooks(i + 1, state, success, successful,
                                Append(failed, exec_result(i)))

\* execute_single_hook of the running blocking hook returns
blocking_hook_returns(i, ok) ==
    /\ m_pc = "blocking"
    /\ i \in blocking_hooks
    /\ hook_state[i] = "running"
    /\ LET state == [hook_state EXCEPT ![i] = "returned"]
           success == [hook_success EXCEPT ![i] = ok]
       IN  IF ok
           THEN continue_execute_hooks(i + 1, state, success,
                                       Append(successful, exec_result(i)), failed)
           ELSE blocking_failed(i, state, success)
    /\ UNCHANGED <<enabled, registry, metrics>>
    /\ UNCHANGED <<gvars, xvars, avars, cvars, lvars, hvars, tvars, dvars>>

\* execute_single_hook of one of the async hooks returns; join_all returns
\* when the last one has.
async_hook_returns(i, ok) ==
    /\ m_pc = "async"
    /\ i \in async_hooks
    /\ hook_state[i] = "running"
    /\ LET state == [hook_state EXCEPT ![i] = "returned"]
           success == [hook_success EXCEPT ![i] = ok]
       IN  IF \A j \in async_hooks : state[j] = "returned"
           THEN finish_trigger(state, success, successful, failed)
           ELSE /\ hook_state' = state
                /\ hook_success' = success
                /\ UNCHANGED <<successful, failed, trigger_result, m_pc>>
    /\ UNCHANGED <<enabled, registry, metrics>>
    /\ UNCHANGED <<gvars, xvars, avars, cvars, lvars, hvars, tvars, dvars>>

\* The task spawned for a fire-and-forget hook runs to its end: it sleeps
\* and logs, and touches nothing of the manager.
fire_and_forget_task_completes(i) ==
    /\ i \in fire_and_forget_hooks
    /\ hook_state[i] = "spawned"
    /\ hook_state' = [hook_state EXCEPT ![i] = "completed"]
    /\ UNCHANGED <<enabled, registry, m_pc, hook_success, successful, failed,
                   trigger_result, metrics>>
    /\ UNCHANGED <<gvars, xvars, avars, cvars, lvars, hvars, tvars, dvars>>

InitManager ==
    /\ InitChainIdle
    /\ InitTrackedIdle
    /\ InitDashboardIdle
    /\ InitAggregateIdle
    /\ InitCoordinatorIdle
    /\ InitExecIdle
    /\ InitGraphIdle
    /\ enabled \in BOOLEAN
    /\ registry \in Registries
    /\ m_pc = "idle"
    /\ hook_state = [i \in 1..Len(registry) |-> "pending"]
    /\ hook_success = [i \in 1..Len(registry) |-> FALSE]
    /\ successful = <<>>
    /\ failed = <<>>
    /\ trigger_result = NoResult
    /\ metrics = HookExecutionMetricsDefault

TriggerEvent == trigger_event

BlockingHookReturns == \E i \in Indices, ok \in BOOLEAN : blocking_hook_returns(i, ok)

AsyncHookReturns == \E i \in Indices, ok \in BOOLEAN : async_hook_returns(i, ok)

FireAndForgetTaskCompletes == \E i \in Indices : fire_and_forget_task_completes(i)

NextManager ==
    \/ TriggerEvent
    \/ BlockingHookReturns
    \/ AsyncHookReturns
    \/ FireAndForgetTaskCompletes

SpecManager == InitManager /\ [][NextManager]_vars

(***************************************************************************)
(* HookExecutor::execute_with_context (executor.rs)                        *)
(***************************************************************************)
\* What a call of execute does when raced against config.timeout: it
\* returns Ok(result) with result.success true or false, returns Err(e), or
\* does not return in time.
Outcomes == {"success", "failure_result", "error", "timeout"}

Capabilities == [1..(MaxRetries + 1) -> Outcomes]

\* Duration::ZERO and ExecutionConfig::default().retry_delay, in ms
RetryDelays == {0, 500}

ExecutionConfigs == [max_retries : 0..MaxRetries, retry_delay : RetryDelays]

\* format!("{:?}", config.timeout) for the default timeout of 30 s
TimeoutDebug == <<"3", "0", "s">>

TimedOut == <<"t", "i", "m", "e", "d", " ", "o", "u", "t">>

\* format!("Execution timed out after {:?}", config.timeout)
timeout_error == <<"E", "x", "e", "c", "u", "t", "i", "o", "n", " ", "t", "i", "m", "e",
      "d", " ", "o", "u", "t", " ", "a", "f", "t", "e", "r", " ">> \o TimeoutDebug

\* e.to_string() of the HookError::Execution the capability returns
capability_error == <<"M", "o", "c", "k", " ", "e", "x", "e", "c", "u", "t", "i", "o", "n",
      " ", "f", "a", "i", "l", "e", "d">>

UnknownError == <<"U", "n", "k", "n", "o", "w", "n", " ", "e", "r", "r", "o", "r">>

CancelledBeforeStart == <<"E", "x", "e", "c", "u", "t", "i", "o", "n", " ", "c", "a", "n", "c",
      "e", "l", "l", "e", "d", " ", "b", "e", "f", "o", "r", "e", " ", "s",
      "t", "a", "r", "t">>

PreExecutionCancellation == <<"P", "r", "e", "-", "e", "x", "e", "c", "u", "t", "i", "o", "n", " ",
      "c", "a", "n", "c", "e", "l", "l", "a", "t", "i", "o", "n">>

ExecutionCancelled == <<"E", "x", "e", "c", "u", "t", "i", "o", "n", " ", "c", "a", "n", "c",
      "e", "l", "l", "e", "d">>

MidExecutionCancellation == <<"M", "i", "d", "-", "e", "x", "e", "c", "u", "t", "i", "o", "n", " ",
      "c", "a", "n", "c", "e", "l", "l", "a", "t", "i", "o", "n">>

unwrap_or(option, default) == IF option.is_some THEN option.text ELSE default

\* ExecutionContext::is_cancelled
is_cancelled_of_a_copy(flag) == FALSE

is_cancelled(flag) == flag

\* `retry_attempts > config.max_retries`: the retry budget is used up
retries_exhausted_one_early(attempts, max_retries) == attempts >= max_retries

retries_exhausted(attempts, max_retries) == attempts > max_retries

\* timeout(config.timeout, execution_future): whether the attempt that
\* starts after `attempts` failed ones is raced against the timeout
attempt_has_timeout_first_only(attempts) == attempts = 0

attempt_has_timeout(attempts) == TRUE

return_result_and_loop(r) ==
    /\ x_result' = r
    /\ x_pc' = "check"

\* `return ExecutionResult { .. }`
return_result(r) ==
    /\ x_result' = r
    /\ x_pc' = "done"

\* The call of execute_with_context up to the retry loop
execute_with_context ==
    /\ x_pc = "idle"
    /\ IF is_cancelled(cancelled)
       THEN /\ return_result([success |-> FALSE, error |-> Some(CancelledBeforeStart),
                              retry_attempts |-> 0, cancelled |-> TRUE,
                              error_details |-> Some(PreExecutionCancellation)])
            /\ UNCHANGED <<retry_attempts, last_error>>
       ELSE /\ retry_attempts' = 0
            /\ last_error' = None
            /\ x_pc' = "check"
            /\ UNCHANGED x_result
    /\ UNCHANGED <<config, capability, cancelled, call_count, timeout_armed>>
    /\ UNCHANGED <<gvars, mvars, avars, cvars, lvars, hvars, tvars, dvars>>

\* Top of the loop: the cancellation check, then the call of execute
start_attempt ==
    /\ x_pc = "check"
    /\ IF is_cancelled(cancelled)
       THEN /\ return_result([success |-> FALSE, error |-> Some(ExecutionCancelled),
                              retry_attempts |-> retry_attempts, cancelled |-> TRUE,
                              error_details |-> Some(MidExecutionCancellation)])
            /\ UNCHANGED <<call_count, timeout_armed>>
       ELSE /\ call_count' = call_count + 1
            /\ timeout_armed' = attempt_has_timeout(retry_attempts)
            /\ x_pc' = "attempt"
            /\ UNCHANGED x_result
    /\ UNCHANGED <<config, capability, cancelled, retry_attempts, last_error>>
    /\ UNCHANGED <<gvars, mvars, avars, cvars, lvars, hvars, tvars, dvars>>

\* A failed attempt: count it, then stop, sleep the retry delay or loop
attempt_failed(error_text) ==
    /\ last_error' = Some(error_text)
    /\ retry_attempts' = retry_attempts + 1
    /\ IF retries_exhausted(retry_attempts + 1, config.max_retries)
       THEN LET error_msg == unwrap_or(Some(error_text), UnknownError)
            IN  return_result([success |-> FALSE, error |-> Some(error_msg),
                               retry_attempts |-> saturating_sub(retry_attempts + 1, 1),
                               cancelled |-> FALSE,
                               error_details |-> Some(error_msg)])
       ELSE /\ x_pc' = IF config.retry_delay > 0 THEN "sleep" ELSE "check"
            /\ UNCHANGED x_result

\* The race of execute against the timeout is decided
attempt_completes ==
    /\ x_pc = "attempt"
    /\ LET outcome == capability[call_count]
       IN  CASE outcome = "success" ->
                    /\ return_result([success |-> TRUE, error |-> None,
                                      retry_attempts |-> retry_attempts,
                                      cancelled |-> FALSE, error_details |-> None])
                    /\ UNCHANGED <<retry_attempts, last_error>>
             [] outcome = "failure_result" ->
                    /\ return_result([success |-> FALSE, error |-> Some(capability_error),
                                      retry_attempts |-> retry_attempts,
                                      cancelled |-> FALSE, error_details |-> None])
                    /\ UNCHANGED <<retry_attempts, last_error>>
             [] outcome = "error" -> attempt_failed(capability_error)
             [] outcome = "timeout" -> timeout_armed /\ attempt_failed(timeout_error)
    /\ timeout_armed' = FALSE
    /\ UNCHANGED <<config, capability, cancelled, call_count>>
    /\ UNCHANGED <<gvars, mvars, avars, cvars, lvars, hvars, tvars, dvars>>

\* tokio::time::sleep(config.retry_delay) returns
retry_delay_elapsed ==
    /\ x_pc = "sleep"
    /\ x_pc' = "check"
    /\ UNCHANGED <<config, capability, cancelled, retry_attempts, last_error,
                   call_count, timeout_armed, x_result>>
    /\ UNCHANGED <<gvars, mvars, avars, cvars, lvars, hvars, tvars, dvars>>

\* ExecutionContext::cancel, called by a holder of the context at any time
cancel ==
    /\ ~cancelled
    /\ cancelled' = TRUE
    /\ UNCHANGED <<config, capability, x_pc, retry_attempts, last_error,
                   call_count, timeout_armed, x_result>>
    /\ UNCHANGED <<gvars, mvars, avars, cvars, lvars, hvars, tvars, dvars>>

InitExec ==
    /\ InitChainIdle
    /\ InitTrackedIdle
    /\ InitDashboardIdle
    /\ InitAggregateIdle
    /\ InitCoordinatorIdle
    /\ InitManagerIdle
    /\ InitGraphIdle
    /\ config \in ExecutionConfigs
    /\ capability \in Capabilities
    /\ cancelled = FALSE
    /\ x_pc = "idle"
    /\ retry_attempts = 0
    /\ last_error = None
    /\ call_count = 0
    /\ timeout_armed = FALSE
    /\ x_result = NoResult

NextExec ==
    \/ execute_with_context
    \/ start_attempt
    \/ attempt_completes
    \/ retry_delay_elapsed
    \/ cancel

SpecExec == InitExec /\ [][NextExec]_vars

(***************************************************************************)
(* AggregatedResults (executor.rs)                                         *)
(***************************************************************************)
\* The duration of the i-th result, in nanoseconds: i times 50 ms
Durations(i) == {50000000 * i}

\* ExecutionResult, with result.success as success and config.required as
\* required; the execution id is the position in the input.
ExecutionResults(i) ==
    [execution_id : {i}, success : BOOLEAN, cancelled : BOOLEAN, required : BOOLEAN,
     duration : Durations(i)]

RECURSIVE ResultVecsOfLen(_)
ResultVecsOfLen(n) ==
    IF n = 0 THEN {<<>>}
    ELSE {Append(v, r) : v \in ResultVecsOfLen(n - 1), r \in ExecutionResults(n)}

ResultVecs == UNION {ResultVecsOfLen(n) : n \in 0..MaxResults}

RECURSIVE sum_durations(_)
sum_durations(v) == IF v = <<>> THEN 0 ELSE Head(v).duration + sum_durations(Tail(v))

\* k as f64 / n as f64, kept as the fraction it is the nearest double of;
\* 0.0 is 0 / 1.
ratio(k, n) == [num |-> k, den |-> n]

from_results_no_precedence(v) ==
    LET total_count == Len(v)
        ok == SelectSeq(v, LAMBDA r : r.success)
        total_duration == sum_durations(v)
    IN  [results |-> v,
         successful |-> ok,
         failed |-> SelectSeq(v, LAMBDA r : ~r.success),
         cancelled |-> SelectSeq(v, LAMBDA r : r.cancelled),
         total_duration |-> total_duration,
         average_duration |-> IF total_count > 0 THEN total_duration \div total_count ELSE 0,
         success_rate |-> IF total_count > 0 THEN ratio(Len(ok), total_count)
                          ELSE ratio(0, 1)]

\* AggregatedResults::from_results
from_results(v) ==
    LET total_count == Len(v)
        ok == SelectSeq(v, LAMBDA r : r.success /\ ~r.cancelled)
        total_duration == sum_durations(v)
    IN  [results |-> v,
         successful |-> ok,
         failed |-> SelectSeq(v, LAMBDA r : ~r.success /\ ~r.cancelled),
         cancelled |-> SelectSeq(v, LAMBDA r : r.cancelled),
         total_duration |-> total_duration,
         average_duration |-> IF total_count > 0 THEN total_duration \div total_count ELSE 0,
         success_rate |-> IF total_count > 0 THEN ratio(Len(ok), total_count)
                          ELSE ratio(0, 1)]

has_critical_failures_of_unsuccessful(agg) ==
    \E i \in 1..Len(agg.results) : ~agg.results[i].success /\ agg.results[i].required

\* AggregatedResults::has_critical_failures
has_critical_failures(agg) == \E i \in 1..Len(agg.failed) : agg.failed[i].required

FromResults ==
    /\ aggregated = NoResult
    /\ aggregated' = from_results(results)
    /\ UNCHANGED results
    /\ UNCHANGED <<gvars, mvars, xvars, cvars, lvars, hvars, tvars, dvars>>

InitAggregate ==
    /\ InitChainIdle
    /\ InitTrackedIdle
    /\ InitDashboardIdle
    /\ InitCoordinatorIdle
    /\ InitGraphIdle
    /\ InitManagerIdle
    /\ InitExecIdle
    /\ results \in ResultVecs
    /\ aggregated = NoResult

NextAggregate == FromResults

SpecAggregate == InitAggregate /\ [][NextAggregate]_vars

(***************************************************************************)
(* ExecutionCoordinator (executor.rs)                                      *)
(***************************************************************************)
\* Execution ids are timestamps; two contexts may carry the same one.
ExecIds == {"e1", "e2"}

\* (executor, context) with the parts of the context the coordinator reads
CoordinatorEntries ==
    [execution_id : ExecIds, mode : Modes, required : {FALSE}, isolated : {FALSE}]

Batches == UNION {[1..n -> CoordinatorEntries] : n \in 0..MaxBatch}

\* Batches of tracked entries, some of which run isolated (SpecIsolated).
IsolatedBatches ==
    UNION {[1..n -> [execution_id : ExecIds, mode : {"Blocking", "Async"},
                     required : {FALSE}, isolated : BOOLEAN]] : n \in 0..MaxBatch}

Entries == 1..Len(executions)

\* The fold of execute_hooks, as the indices of each group in input order
blocking == {i \in Entries : executions[i].mode = "Blocking"}

c_async_hooks == {i \in Entries : executions[i].mode = "Async"}

fire_and_forget == {i \in Entries : executions[i].mode = "FireAndForget"}

\* active.insert(execution_id, context) and active.remove(&execution_id)
register(active, i) == Insert(active, executions[i].execution_id, i)

deregister(active, i) ==
    [id \in DOMAIN active \ {executions[i].execution_id} |-> active[id]]

RECURSIVE register_all(_, _)
register_all(active, order) ==
    IF order = <<>> THEN active
    ELSE register_all(register(active, Head(order)), Tail(order))

\* How execute_single_tracked ends: prepare fails, or execute_with_context
\* returns a success, a failure or (only with the flag set) a cancelled
\* result, or (only when it runs isolated) the join of its worker fails.
TrackedOutcomes == {"success", "failure", "cancelled", "prepare_failed", "join_error"}

can_end(i, outcome) ==
    /\ outcome = "cancelled" => flags[i]
    /\ outcome = "join_error" => executions[i].isolated

join_error_result_cancelled(i) ==
    [execution_id |-> executions[i].execution_id,
     entry |-> i,
     success |-> FALSE,
     cancelled |-> TRUE,
     required |-> executions[i].required,
     duration |-> 50000000 * i,
     error_details |-> "Isolation error"]

\* The closure of unwrap_or_else on the JoinError of the isolated worker.
\* `entry` is not a field of ExecutionResult: it records which entry of the
\* batch the result belongs to.
join_error_result(i) ==
    [execution_id |-> executions[i].execution_id,
     entry |-> i,
     success |-> FALSE,
     cancelled |-> FALSE,
     required |-> executions[i].required,
     duration |-> 50000000 * i,
     error_details |-> "Isolation error"]

\* The result of execute_single_tracked; error_details is abridged to the
\* kind of its text ("None" for no text).
execution_result(i, outcome) ==
    IF outcome = "join_error" THEN join_error_result(i)
    ELSE [execution_id |-> executions[i].execution_id,
          entry |-> i,
          success |-> outcome = "success",
          cancelled |-> outcome = "cancelled",
          required |-> executions[i].required,
          duration |-> IF outcome = "prepare_failed" THEN 0 ELSE 50000000 * i,
          error_details |->
              CASE outcome = "success" -> "None"
                [] outcome = "failure" -> "Execution error"
                [] outcome = "cancelled" -> "Cancellation"
                [] outcome = "prepare_failed" -> "Preparation error"]

\* The active map when execute_single_tracked of entry i returns: the
\* early return after a failed prepare leaves the entry in the map.
active_after(active, i, outcome) ==
    IF outcome = "prepare_failed" THEN active ELSE deregister(active, i)

RECURSIVE count_results(_, _)
count_results(st, res) ==
    IF res = <<>> THEN st
    ELSE LET r == Head(res)
         IN  count_results(
                 [st EXCEPT !.total_executions = @ + 1,
                            !.total_execution_time = @ + r.duration,
                            !.cancelled_executions = IF r.cancelled THEN @ + 1 ELSE @,
                            !.successful_executions =
                                IF ~r.cancelled /\ r.success THEN @ + 1 ELSE @,
                            !.failed_executions =
                                IF ~r.cancelled /\ ~r.success THEN @ + 1 ELSE @],
                 Tail(res))

\* ExecutionCoordinator::update_stats
update_stats(st, res) ==
    LET counted == count_results(st, res)
    IN  IF counted.total_executions > 0
        THEN [counted EXCEPT !.average_execution_time =
                 counted.total_execution_time \div counted.total_executions]
        ELSE counted

\* join_all returns when some / when every async future has returned
join_all_first_returned(state) == \E j \in c_async_hooks : state[j] = "returned"

join_all_returned(state) == \A j \in c_async_hooks : state[j] = "returned"

\* The end of execute_hooks: the fire-and-forget tasks are spawned, the
\* statistics updated with all_results, and the aggregate returned.
finish_execute_hooks(state, active, res) ==
    /\ c_state' = [i \in Entries |-> IF i \in fire_and_forget THEN "spawned" ELSE state[i]]
    /\ active_executions' = active
    /\ all_results' = res
    /\ stats' = update_stats(stats, res)
    /\ c_aggregated' = from_results(res)
    /\ c_pc' = "done"

\* Every blocking entry not yet run and every async entry started together.
run_next_without_waiting(from, state, active, res) ==
    LET next_blocking == {i \in blocking : i >= from}
        started == next_blocking \cup c_async_hooks
    IN  IF started # {}
        THEN /\ c_state' = [i \in Entries |-> IF i \in started THEN "running" ELSE state[i]]
             /\ active_executions' = register_all(active, Ascending(started))
             /\ all_results' = res
             /\ c_pc' = IF next_blocking # {} THEN "blocking" ELSE "async"
             /\ UNCHANGED <<stats, c_aggregated>>
        ELSE finish_execute_hooks(state, active, res)

\* execute_hooks from the point where the blocking entries before index
\* `from` are through: run the next blocking entry, or start every async
\* entry (join_all polls them in input order), or finish.
run_next(from, state, active, res) ==
    LET next_blocking == {i \in blocking : i >= from}
    IN  IF next_blocking # {}
        THEN LET i == CHOOSE x \in next_blocking : \A y \in next_blocking : x <= y
             IN  /\ c_state' = [state EXCEPT ![i] = "running"]
                 /\ active_executions' = register(active, i)
                 /\ all_results' = res
                 /\ c_pc' = "blocking"
                 /\ UNCHANGED <<stats, c_aggregated>>
        ELSE IF c_async_hooks # {}
        THEN /\ c_state' = [i \in Entries |->
                               IF i \in c_async_hooks THEN "running" ELSE state[i]]
             /\ active_executions' = register_all(active, Ascending(c_async_hooks))
             /\ all_results' = res
             /\ c_pc' = "async"
             /\ UNCHANGED <<stats, c_aggregated>>
        ELSE finish_execute_hooks(state, active, res)

\* ExecutionCoordinator::execute_hooks up to its first suspension point
execute_hooks ==
    /\ c_pc = "idle"
    /\ run_next(1, c_state, active_executions, all_results)
    /\ cancel_call' = NoCall
    /\ UNCHANGED <<executions, flags, async_results>>
    /\ UNCHANGED <<gvars, mvars, xvars, avars, lvars, hvars, tvars, dvars>>

\* execute_single_tracked of the running blocking entry returns
blocking_entry_returns(i, outcome) ==
    /\ c_pc = "blocking"
    /\ i \in blocking
    /\ c_state[i] = "running"
    /\ can_end(i, outcome)
    /\ run_next(i + 1, [c_state EXCEPT ![i] = "returned"],
                active_after(active_executions, i, outcome),
                Append(all_results, execution_result(i, outcome)))
    /\ cancel_call' = NoCall
    /\ UNCHANGED <<executions, flags, async_results>>
    /\ UNCHANGED <<gvars, mvars, xvars, avars, lvars, hvars, tvars, dvars>>

\* execute_single_tracked of one of the async entries returns; join_all
\* hands over the results in input order once the last one has.
async_entry_returns(i, outcome) ==
    /\ c_pc = "async"
    /\ i \in c_async_hooks
    /\ c_state[i] = "running"
    /\ can_end(i, outcome)
    /\ LET state == [c_state EXCEPT ![i] = "returned"]
           active == active_after(active_executions, i, outcome)
           returned == [async_results EXCEPT ![i] = execution_result(i, outcome)]
           order == SelectSeq(Ascending(c_async_hooks), LAMBDA j : state[j] = "returned")
       IN  /\ async_results' = returned
           /\ IF join_all_returned(state)
              THEN finish_execute_hooks(state, active,
                       all_results \o [k \in 1..Len(order) |-> returned[order[k]]])
              ELSE /\ c_state' = state
                   /\ active_executions' = active
                   /\ UNCHANGED <<all_results, stats, c_aggregated, c_pc>>
    /\ cancel_call' = NoCall
    /\ UNCHANGED <<executions, flags>>
    /\ UNCHANGED <<gvars, mvars, xvars, avars, lvars, hvars, tvars, dvars>>

\* The task spawned for a fire-and-forget entry starts execute_single_tracked
fire_and_forget_starts(i) ==
    /\ i \in fire_and_forget
    /\ c_state[i] = "spawned"
    /\ c_state' = [c_state EXCEPT ![i] = "running"]
    /\ active_executions' = register(active_executions, i)
    /\ cancel_call' = NoCall
    /\ UNCHANGED <<executions, c_pc, flags, all_results, async_results, stats, c_aggregated>>
    /\ UNCHANGED <<gvars, mvars, xvars, avars, lvars, hvars, tvars, dvars>>

fire_and_forget_returns_counted(i, outcome) ==
    /\ i \in fire_and_forget
    /\ c_state[i] = "running"
    /\ can_end(i, outcome)
    /\ c_state' = [c_state EXCEPT ![i] = "returned"]
    /\ active_executions' = active_after(active_executions, i, outcome)
    /\ stats' = update_stats(stats, <<execution_result(i, outcome)>>)
    /\ cancel_call' = NoCall
    /\ UNCHANGED <<executions, c_pc, flags, all_results, async_results, c_aggregated>>
    /\ UNCHANGED <<gvars, mvars, xvars, avars, lvars, hvars, tvars, dvars>>

\* ... and its execute_single_tracked returns; the result is dropped
fire_and_forget_returns(i, outcome) ==
    /\ i \in fire_and_forget
    /\ c_state[i] = "running"
    /\ can_end(i, outcome)
    /\ c_state' = [c_state EXCEPT ![i] = "returned"]
    /\ active_executions' = active_after(active_executions, i, outcome)
    /\ cancel_call' = NoCall
    /\ UNCHANGED <<executions, c_pc, flags, all_results, async_results, stats, c_aggregated>>
    /\ UNCHANGED <<gvars, mvars, xvars, avars, lvars, hvars, tvars, dvars>>

\* The flags after every registered context was cancelled.
cancel_registered(active) ==
    [i \in Entries |-> flags[i] \/ \E id \in DOMAIN active : active[id] = i]

cancel_every_registered(active, execution_id) == cancel_registered(active)

\* The flags after active.get(execution_id) was cancelled, if there is one.
cancel_one(active, execution_id) ==
    IF execution_id \in DOMAIN active
    THEN [flags EXCEPT ![active[execution_id]] = TRUE]
    ELSE flags

\* ExecutionCoordinator::get_active_executions
get_active_executions == DOMAIN active_executions

\* ExecutionCoordinator::cancel_execution
cancel_execution(execution_id) ==
    /\ flags' = cancel_one(active_executions, execution_id)
    /\ cancel_call' = [op |-> "cancel_execution", id |-> execution_id,
                       returned |-> execution_id \in DOMAIN active_executions]
    /\ UNCHANGED <<executions, c_pc, c_state, active_executions, all_results,
                   async_results, stats, c_aggregated>>
    /\ UNCHANGED <<gvars, mvars, xvars, avars, lvars, hvars, tvars, dvars>>

\* ExecutionCoordinator::cancel_all
cancel_all ==
    /\ flags' = cancel_registered(active_executions)
    /\ cancel_call' = [op |-> "cancel_all"]
    /\ UNCHANGED <<executions, c_pc, c_state, active_executions, all_results,
                   async_results, stats, c_aggregated>>
    /\ UNCHANGED <<gvars, mvars, xvars, avars, lvars, hvars, tvars, dvars>>

InitCoordinator ==
    /\ InitChainIdle
    /\ InitTrackedIdle
    /\ InitDashboardIdle
    /\ InitGraphIdle
    /\ InitManagerIdle
    /\ InitExecIdle
    /\ InitAggregateIdle
    /\ executions \in Batches
    /\ c_pc = "idle"
    /\ c_state = [i \in 1..Len(executions) |-> "pending"]
    /\ flags = [i \in 1..Len(executions) |-> FALSE]
    /\ active_executions = <<>>
    /\ all_results = <<>>
    /\ async_results = [i \in 1..Len(executions) |-> NoResult]
    /\ stats = NoStats
    /\ c_aggregated = NoResult
    /\ cancel_call = NoCall
    /\ tasks = <<>>

ExecuteHooks == execute_hooks

BlockingEntryReturns ==
    \E i \in Entries, outcome \in TrackedOutcomes : blocking_entry_returns(i, outcome)

AsyncEntryReturns ==
    \E i \in Entries, outcome \in TrackedOutcomes : async_entry_returns(i, outcome)

FireAndForgetStarts == \E i \in Entries : fire_and_forget_starts(i)

FireAndForgetReturns ==
    \E i \in Entries, outcome \in TrackedOutcomes : fire_and_forget_returns(i, outcome)

CancelExecution == \E execution_id \in ExecIds : cancel_execution(execution_id)

CancelAll == cancel_all

NextCoordinator ==
    \/ ExecuteHooks
    \/ BlockingEntryReturns
    \/ AsyncEntryReturns
    \/ FireAndForgetStarts
    \/ FireAndForgetReturns
    \/ CancelExecution
    \/ CancelAll

SpecCoordinator == InitCoordinator /\ [][NextCoordinator]_vars

InitIsolated ==
    /\ InitChainIdle
    /\ InitTrackedIdle
    /\ InitDashboardIdle
    /\ InitGraphIdle
    /\ InitManagerIdle
    /\ InitExecIdle
    /\ InitAggregateIdle
    /\ executions \in IsolatedBatches
    /\ c_pc = "idle"
    /\ c_state = [i \in 1..Len(executions) |-> "pending"]
    /\ flags = [i \in 1..Len(executions) |-> FALSE]
    /\ active_executions = <<>>
    /\ all_results = <<>>
    /\ async_results = [i \in 1..Len(executions) |-> NoResult]
    /\ stats = NoStats
    /\ c_aggregated = NoResult
    /\ cancel_call = NoCall
    /\ tasks = <<>>

NextIsolated ==
    \/ ExecuteHooks
    \/ BlockingEntryReturns
    \/ AsyncEntryReturns
    \/ CancelAll

SpecIsolated == InitIsolated /\ [][NextIsolated]_vars

(***************************************************************************)
(* Concurrent operations on clones of one ExecutionCoordinator: the        *)
(* clones share active_executions and stats (executor.rs, Clone).  Each    *)
(* task runs one operation, one step per stretch of code between two       *)
(* suspension points (`.await`).                                           *)
(***************************************************************************)
Tasks == {"t1", "t2"}

\* The execution id of the k-th entry of the batch of task t.
EntryId(t, k) == <<t, k>>

EntryIds == {EntryId(t, k) : t \in Tasks, k \in 1..MaxBatch}

\* The operation of a task: execute_hooks on a batch of n Blocking entries,
\* cancel_execution(target), cancel_all or get_active_executions.
TaskOps ==
    [op : {"execute_hooks"}, n : 1..MaxBatch, target : {<<>>}]
        \cup [op : {"cancel_execution"}, n : {0}, target : {EntryId(t, 1) : t \in Tasks}]
        \cup [op : {"cancel_all", "get_active_executions"}, n : {0}, target : {<<>>}]

\* The positions at which a task is suspended in an `.await`: on the lock
\* of the active map (to register, to deregister, to cancel or to list),
\* on prepare / execute_with_context / cleanup of an entry, on the write
\* lock of the statistics, on the write lock of a context's flag.
SuspensionPoints ==
    {"lock_active", "running", "lock_active_remove", "lock_stats", "cancel_await"}

\* The flags of the contexts when the operations start: the owner of the
\* first context of a batch may have cancelled it already.
PreCancelled ==
    {[id \in EntryIds |-> id \in S] : S \in SUBSET {EntryId(t, 1) : t \in Tasks}}

Holder(lock) == {t \in Tasks : lock \in tasks[t].held}

lock_free_not_checked(lock) == TRUE

\* Mutex::lock / RwLock::write return when no guard of the lock is alive
lock_free(lock) == Holder(lock) = {}

\* What execute_single_tracked of a task's entry yields.
task_result(outcome) ==
    [success |-> outcome = "success",
     cancelled |-> outcome = "cancelled",
     duration |-> IF outcome = "prepare_failed" THEN 0 ELSE 50000000]

\* `self.active_executions.lock().await` returns the guard: in
\* execute_single_tracked (before insert, before remove), cancel_execution,
\* cancel_all and get_active_executions.
lock_active(t) ==
    /\ tasks[t].pc \in {"lock_active", "lock_active_remove"}
    /\ lock_free("active")
    /\ tasks' = [tasks EXCEPT ![t].held = @ \cup {"active"},
                              ![t].pc = CASE tasks[t].pc = "lock_active_remove" -> "deregistering"
                                          [] tasks[t].op = "execute_hooks" -> "registering"
                                          [] OTHER -> "holding"]
    /\ UNCHANGED <<active_executions, flags, stats>>

\* execute_single_tracked: active.insert(..), the guard is dropped, and
\* prepare is awaited
register_entry(t) ==
    /\ tasks[t].pc = "registering"
    /\ LET id == EntryId(t, tasks[t].index)
       IN  active_executions' = Insert(active_executions, id, id)
    /\ tasks' = [tasks EXCEPT ![t].held = @ \ {"active"}, ![t].pc = "running"]
    /\ UNCHANGED <<flags, stats>>

\* The position of execute_hooks after the result of the current entry was
\* pushed: the next entry, or update_stats.
after_entry(t) == IF tasks[t].index < tasks[t].n THEN "lock_active" ELSE "lock_stats"

\* execute_single_tracked: prepare failed (the result is returned at
\* once), or prepare, execute_with_context and cleanup are through and the
\* lock is awaited for the removal
entry_executed(t, outcome) ==
    /\ tasks[t].pc = "running"
    /\ outcome = "cancelled" => flags[EntryId(t, tasks[t].index)]
    /\ tasks' = IF outcome = "prepare_failed"
                THEN [tasks EXCEPT ![t].results = Append(@, task_result(outcome)),
                                   ![t].index = IF @ < tasks[t].n THEN @ + 1 ELSE @,
                                   ![t].pc = after_entry(t)]
                ELSE [tasks EXCEPT ![t].pending = task_result(outcome),
                                   ![t].pc = "lock_active_remove"]
    /\ UNCHANGED <<active_executions, flags, stats>>

\* execute_single_tracked: active.remove(..), the guard is dropped and the
\* result returned; execute_hooks pushes it
deregister_entry(t) ==
    /\ tasks[t].pc = "deregistering"
    /\ LET id == EntryId(t, tasks[t].index)
       IN  active_executions' = [k \in DOMAIN active_executions \ {id} |-> active_executions[k]]
    /\ tasks' = [tasks EXCEPT ![t].held = @ \ {"active"},
                              ![t].results = Append(@, tasks[t].pending),
                              ![t].pending = NoResult,
                              ![t].index = IF @ < tasks[t].n THEN @ + 1 ELSE @,
                              ![t].pc = after_entry(t)]
    /\ UNCHANGED <<flags, stats>>

\* update_stats: `self.stats.write().await` returns the guard, through
\* which the task reads and writes the shared statistics
lock_stats(t) ==
    /\ tasks[t].pc = "lock_stats"
    /\ lock_free("stats")
    /\ tasks' = [tasks EXCEPT ![t].held = @ \cup {"stats"},
                              ![t].local = stats,
                              ![t].pc = "updating"]
    /\ UNCHANGED <<active_executions, flags, stats>>

\* update_stats: the loop over the results and the average, the guard is
\* dropped; execute_hooks returns the aggregate
write_stats(t) ==
    /\ tasks[t].pc = "updating"
    /\ stats' = update_stats(tasks[t].local, tasks[t].results)
    /\ tasks' = [tasks EXCEPT ![t].held = @ \ {"stats"},
                              ![t].local = NoResult,
                              ![t].returned = from_results(tasks[t].results),
                              ![t].pc = "done"]
    /\ UNCHANGED <<active_executions, flags>>

\* cancel_execution and cancel_all with the guard of the active map: the
\* contexts to cancel are looked up; cancel() of the first one is awaited,
\* or, with none, the guard is dropped and the operation returns
cancel_lookup(t) ==
    /\ tasks[t].pc = "holding"
    /\ tasks[t].op \in {"cancel_execution", "cancel_all"}
    /\ LET found == IF tasks[t].op = "cancel_all" THEN DOMAIN active_executions
                    ELSE DOMAIN active_executions \cap {tasks[t].target}
       IN  tasks' = IF found = {}
                    THEN [tasks EXCEPT ![t].held = @ \ {"active"},
                                       ![t].returned = (tasks[t].op = "cancel_all"),
                                       ![t].pc = "done"]
                    ELSE [tasks EXCEPT ![t].todo = found, ![t].pc = "cancel_await"]
    /\ UNCHANGED <<active_executions, flags, stats>>

\* context.cancel(): the write lock of the flag is acquired and the flag
\* set; then cancel() of the next context is awaited, or the guard of the
\* active map is dropped and the operation returns
cancel_context(t, id) ==
    /\ tasks[t].pc = "cancel_await"
    /\ id \in tasks[t].todo
    /\ flags' = [flags EXCEPT ![id] = TRUE]
    /\ tasks' = IF tasks[t].todo = {id}
                THEN [tasks EXCEPT ![t].todo = {},
                                   ![t].held = @ \ {"active"},
                                   ![t].returned = TRUE,
                                   ![t].pc = "done"]
                ELSE [tasks EXCEPT ![t].todo = @ \ {id}]
    /\ UNCHANGED <<active_executions, stats>>

\* get_active_executions with the guard: the keys are collected, the
\* guard is dropped
collect_active(t) ==
    /\ tasks[t].pc = "holding"
    /\ tasks[t].op = "get_active_executions"
    /\ tasks' = [tasks EXCEPT ![t].held = @ \ {"active"},
                              ![t].returned = DOMAIN active_executions,
                              ![t].pc = "done"]
    /\ UNCHANGED <<active_executions, flags, stats>>

InitLocks ==
    /\ InitChainIdle
    /\ InitTrackedIdle
    /\ InitDashboardIdle
    /\ InitGraphIdle
    /\ InitManagerIdle
    /\ InitExecIdle
    /\ InitAggregateIdle
    /\ executions = <<>>
    /\ c_pc = "idle"
    /\ c_state = <<>>
    /\ all_results = <<>>
    /\ async_results = <<>>
    /\ c_aggregated = NoResult
    /\ cancel_call = NoCall
    /\ active_executions = <<>>
    /\ flags \in PreCancelled
    /\ stats = NoStats
    /\ \E ops \in [Tasks -> TaskOps] :
           tasks = [t \in Tasks |->
                       [op |-> ops[t].op, n |-> ops[t].n, target |-> ops[t].target,
                        pc |-> "lock_active", held |-> {}, index |-> 1,
                        results |-> <<>>, pending |-> NoResult, local |-> NoResult,
                        todo |-> {}, returned |-> NoResult]]

LocksIdle ==
    UNCHANGED <<executions, c_pc, c_state, all_results, async_results, c_aggregated,
                cancel_call, gvars, mvars, xvars, avars, hvars, tvars, dvars>>

LockActive == LocksIdle /\ \E t \in Tasks : lock_active(t)

RegisterEntry == LocksIdle /\ \E t \in Tasks : register_entry(t)

EntryExecuted ==
    LocksIdle /\ \E t \in Tasks, outcome \in {"success", "failure", "cancelled", "prepare_failed"} :
                    entry_executed(t, outcome)

DeregisterEntry == LocksIdle /\ \E t \in Tasks : deregister_entry(t)

LockStats == LocksIdle /\ \E t \in Tasks : lock_stats(t)

WriteStats == LocksIdle /\ \E t \in Tasks : write_stats(t)

CancelLookup == LocksIdle /\ \E t \in Tasks : cancel_lookup(t)

CancelContext == LocksIdle /\ \E t \in Tasks, id \in EntryIds : cancel_context(t, id)

CollectActive == LocksIdle /\ \E t \in Tasks : collect_active(t)

NextLocks ==
    \/ LockActive
    \/ RegisterEntry
    \/ EntryExecuted
    \/ DeregisterEntry
    \/ LockStats
    \/ WriteStats
    \/ CancelLookup
    \/ CancelContext
    \/ CollectActive

SpecLocks == InitLocks /\ [][NextLocks]_vars

(***************************************************************************)
(* ExecutionCoordinator::execute_single_tracked around one                 *)
(* execute_with_context: the context, its clone in the active map and the  *)
(* clone handed to the isolated worker share one cancellation flag         *)
(* (`cancelled` is an Arc, and ExecutionContext derives Clone).            *)
(***************************************************************************)
\* The execution id of the context, and its place in the active map.
TrackedId == "e1"

PreparationFailed ==
    <<"P", "r", "e", "p", "a", "r", "a", "t", "i", "o", "n", " ", "f", "a", "i", "l", "e", "d">>

PreparationError ==
    <<"P", "r", "e", "p", "a", "r", "a", "t", "i", "o", "n", " ", "e", "r", "r", "o", "r">>

TaskJoinError == <<"T", "a", "s", "k", " ", "j", "o", "i", "n", " ", "e", "r", "r", "o", "r">>

IsolationError == <<"I", "s", "o", "l", "a", "t", "i", "o", "n", " ", "e", "r", "r", "o", "r">>

context_cancel_of_a_copy(flag) == flag

\* ExecutionContext::cancel: *self.cancelled.write().await = true
context_cancel(flag) == TRUE

\* execute_single_tracked starts: the clone of the context is registered.
track_execution ==
    /\ tracked.pc = "spawned"
    /\ active_executions' = Insert(active_executions, TrackedId, 1)
    /\ tracked' = [tracked EXCEPT !.pc = "prepare"]
    /\ cancel_call' = NoCall
    /\ UNCHANGED <<executions, c_pc, c_state, flags, all_results, async_results, stats,
                   c_aggregated, t_result>>
    /\ UNCHANGED <<gvars, mvars, xvars, avars, lvars, hvars, dvars>>

\* executor.prepare returns: on Err the failure result is returned at once.
prepare_returns(ok) ==
    /\ tracked.pc = "prepare"
    /\ IF ok
       THEN /\ tracked' = [tracked EXCEPT !.pc = "execute"]
            /\ UNCHANGED t_result
       ELSE /\ tracked' = [tracked EXCEPT !.pc = "done"]
            /\ t_result' = [success |-> FALSE, error |-> Some(PreparationFailed),
                            retry_attempts |-> 0, cancelled |-> FALSE,
                            error_details |-> Some(PreparationError)]
    /\ UNCHANGED <<gvars, mvars, xvars, avars, cvars, lvars, hvars, dvars>>

\* execute_with_context is called, directly or by the spawned worker.
tracked_execute_with_context ==
    /\ tracked.pc = "execute"
    /\ execute_with_context

\* The isolated worker ends without a result (JoinError): unwrap_or_else
\* builds the failure result.
worker_join_error ==
    /\ tracked.pc = "execute"
    /\ tracked.isolated
    /\ x_pc \in {"idle", "check", "attempt", "sleep"}
    /\ x_pc' = "panicked"
    /\ t_result' = [success |-> FALSE, error |-> Some(TaskJoinError),
                    retry_attempts |-> 0, cancelled |-> FALSE,
                    error_details |-> Some(IsolationError)]
    /\ tracked' = [tracked EXCEPT !.pc = "cleanup"]
    /\ UNCHANGED <<config, capability, cancelled, retry_attempts, last_error,
                   call_count, timeout_armed, x_result>>
    /\ UNCHANGED <<gvars, mvars, avars, cvars, lvars, hvars, dvars>>

\* execute_with_context has returned its ExecutionResult.
execute_returns ==
    /\ tracked.pc = "execute"
    /\ x_pc = "done"
    /\ t_result' = x_result
    /\ tracked' = [tracked EXCEPT !.pc = "cleanup"]
    /\ UNCHANGED <<gvars, mvars, xvars, avars, cvars, lvars, hvars, dvars>>

\* executor.cleanup returns; the id is removed and the result returned.
cleanup_returns ==
    /\ tracked.pc = "cleanup"
    /\ active_executions' =
           [id \in DOMAIN active_executions \ {TrackedId} |-> active_executions[id]]
    /\ tracked' = [tracked EXCEPT !.pc = "done"]
    /\ cancel_call' = NoCall
    /\ UNCHANGED <<executions, c_pc, c_state, flags, all_results, async_results, stats,
                   c_aggregated, t_result>>
    /\ UNCHANGED <<gvars, mvars, xvars, avars, lvars, hvars, dvars>>

\* ExecutionCoordinator::cancel_execution, on the flag of the one context
tracked_cancel_execution(execution_id) ==
    /\ cancelled' = IF execution_id \in DOMAIN active_executions
                    THEN context_cancel(cancelled) ELSE cancelled
    /\ cancel_call' = [op |-> "cancel_execution", id |-> execution_id,
                       returned |-> execution_id \in DOMAIN active_executions]
    /\ UNCHANGED <<config, capability, x_pc, retry_attempts, last_error,
                   call_count, timeout_armed, x_result>>
    /\ UNCHANGED <<executions, c_pc, c_state, flags, active_executions, all_results,
                   async_results, stats, c_aggregated>>
    /\ UNCHANGED <<gvars, mvars, avars, lvars, hvars, tvars, dvars>>

\* ExecutionCoordinator::cancel_all, on the flag of the one context
tracked_cancel_all ==
    /\ cancelled' = IF DOMAIN active_executions # {}
                    THEN context_cancel(cancelled) ELSE cancelled
    /\ cancel_call' = [op |-> "cancel_all"]
    /\ UNCHANGED <<config, capability, x_pc, retry_attempts, last_error,
                   call_count, timeout_armed, x_result>>
    /\ UNCHANGED <<executions, c_pc, c_state, flags, active_executions, all_results,
                   async_results, stats, c_aggregated>>
    /\ UNCHANGED <<gvars, mvars, avars, lvars, hvars, tvars, dvars>>

\* The context is built (flag false) and handed to execute_single_tracked,
\* whose future has not been polled yet.
InitTracked ==
    /\ InitGraphIdle
    /\ InitManagerIdle
    /\ InitAggregateIdle
    /\ InitCoordinatorIdle
    /\ InitChainIdle
    /\ InitDashboardIdle
    /\ config \in ExecutionConfigs
    /\ capability \in Capabilities
    /\ cancelled = FALSE
    /\ x_pc = "idle"
    /\ retry_attempts = 0
    /\ last_error = None
    /\ call_count = 0
    /\ timeout_armed = FALSE
    /\ x_result = NoResult
    /\ tracked \in [pc : {"spawned"}, isolated : BOOLEAN]
    /\ t_result = NoResult

TrackExecution == track_execution

PrepareReturns == \E ok \in BOOLEAN : prepare_returns(ok)

TrackedCancelExecution == \E execution_id \in ExecIds : tracked_cancel_execution(execution_id)

NextTracked ==
    \/ TrackExecution
    \/ PrepareReturns
    \/ tracked_execute_with_context
    \/ start_attempt
    \/ attempt_completes
    \/ retry_delay_elapsed
    \/ worker_join_error
    \/ execute_returns
    \/ cleanup_returns
    \/ cancel
    \/ TrackedCancelExecution
    \/ tracked_cancel_all

SpecTracked == InitTracked /\ [][NextTracked]_vars

(***************************************************************************)
(* ChainExecutor::execute_chain (chaining.rs)                              *)
(***************************************************************************)
\* The maps a hook returns as output_data, and the initial_data of a chain.
OutputData == {<<>>, [k \in {"k1"} |-> "a"], [k \in {"k1"} |-> "b"], [k \in {"k2"} |-> "b"]}

InitialData == {<<>>, [k \in {"k1"} |-> "init"]}

\* What execute_with_chain_context of a hook returns: Err(e), or
\* Ok(ChainedHookResult) with result.success, output_data, terminate_chain.
ChainableHooks ==
    [returns : {"Err"}, success : {FALSE}, output_data : {<<>>}, terminate_chain : {FALSE}]
    \cup [returns : {"Ok"}, success : {FALSE}, output_data : {<<>>}, terminate_chain : {FALSE}]
    \cup [returns : {"Ok"}, success : {TRUE}, output_data : OutputData,
          terminate_chain : BOOLEAN]

Chains == UNION {[1..n -> ChainableHooks] : n \in 0..MaxChain}

ChainConfigs ==
    [continue_on_failure : BOOLEAN, max_chain_length : {MaxChain - 1, MaxChain},
     preserve_intermediate_results : BOOLEAN]

\* hook.get_id(): the hooks of a chain are named by their place in it.
chain_hook_id(index) == index

\* The HookError a failing hook returns.
hook_error(index) == [kind |-> "Execution", hook |-> chain_hook_id(index)]

chain_length_error(n, max) == [kind |-> "Configuration", length |-> n, max |-> max]

\* for (key, value) in &hook_result.output_data { context.data.insert(..) }
insert_all(data, output_data) ==
    [k \in DOMAIN data \cup DOMAIN output_data |->
        IF k \in DOMAIN output_data THEN output_data[k] ELSE data[k]]

\* The ChainedHookResult of the hook at index: the one it returned, or the
\* failure result built from its error.
chained_hook_result(index) ==
    LET hook == chain_hooks[index]
    IN  IF hook.returns = "Ok"
        THEN [hook_id |-> chain_hook_id(index),
              result |-> [success |-> hook.success, error |-> None],
              output_data |-> hook.output_data,
              terminate_chain |-> hook.terminate_chain]
        ELSE [hook_id |-> chain_hook_id(index),
              result |-> [success |-> FALSE, error |-> Some(hook_error(index))],
              output_data |-> <<>>,
              terminate_chain |-> FALSE]

\* Ok(ChainExecutionResult { .. })
chain_execution_result(res, data, early) ==
    [kind |-> "Ok", results |-> res, final_data |-> data, terminated_early |-> early,
     success |-> \A i \in 1..Len(res) : res[i].result.success]

return_error_always(continue_on_failure) == TRUE

\* if !self.config.continue_on_failure { return Err(e); }
return_error(continue_on_failure) == ~continue_on_failure

break_never(early) == FALSE

\* if terminated_early { break; }
break(early) == early

\* execute_chain up to the first call of execute_with_chain_context.
execute_chain(hook_list, initial_data) ==
    /\ chain_pc = "idle"
    /\ chain_hooks' = hook_list
    /\ chain_results' = <<>>
    /\ terminated_early' = FALSE
    /\ IF Len(hook_list) > chain_config.max_chain_length
       THEN /\ chain_result' =
                   [kind |-> "Err",
                    error |-> chain_length_error(Len(hook_list), chain_config.max_chain_length)]
            /\ chain_pc' = "done"
            /\ UNCHANGED <<context, chain_calls>>
       ELSE IF hook_list = <<>>
       THEN /\ context' = [data |-> initial_data, current_index |-> 0,
                           previous_results |-> <<>>]
            /\ chain_result' = chain_execution_result(<<>>, initial_data, FALSE)
            /\ chain_pc' = "done"
            /\ UNCHANGED chain_calls
       ELSE /\ context' = [data |-> initial_data, current_index |-> 1,
                           previous_results |-> <<>>]
            /\ chain_calls' = <<1>>
            /\ chain_pc' = "running"
            /\ UNCHANGED chain_result
    /\ UNCHANGED chain_config
    /\ UNCHANGED <<gvars, mvars, xvars, avars, cvars, lvars, tvars, dvars>>

\* The hook at context.current_index returns: the rest of that iteration of
\* the loop, and either the next call or the return of execute_chain.
chain_hook_returns ==
    /\ chain_pc = "running"
    /\ LET index == context.current_index
           hook == chain_hooks[index]
           hook_result == chained_hook_result(index)
           early == terminated_early \/ hook_result.terminate_chain
           data == insert_all(context.data, hook_result.output_data)
           previous == IF chain_config.preserve_intermediate_results
                       THEN Append(context.previous_results, hook_result)
                       ELSE context.previous_results
           res == Append(chain_results, hook_result)
       IN  IF hook.returns = "Err" /\ return_error(chain_config.continue_on_failure)
           THEN /\ chain_result' = [kind |-> "Err", error |-> hook_error(index)]
                /\ chain_pc' = "done"
                /\ UNCHANGED <<context, chain_results, terminated_early, chain_calls>>
           ELSE /\ terminated_early' = early
                /\ chain_results' = res
                /\ IF break(early) \/ index = Len(chain_hooks)
                   THEN /\ context' = [context EXCEPT !.data = data,
                                                      !.previous_results = previous]
                        /\ chain_result' = chain_execution_result(res, data, early)
                        /\ chain_pc' = "done"
                        /\ UNCHANGED chain_calls
                   ELSE /\ context' = [data |-> data, current_index |-> index + 1,
                                       previous_results |-> previous]
                        /\ chain_calls' = Append(chain_calls, index + 1)
                        /\ UNCHANGED <<chain_result, chain_pc>>
    /\ UNCHANGED <<chain_config, chain_hooks>>
    /\ UNCHANGED <<gvars, mvars, xvars, avars, cvars, lvars, tvars, dvars>>

\* ChainExecutor::new(config)
InitChain ==
    /\ InitTrackedIdle
    /\ InitDashboardIdle
    /\ InitGraphIdle
    /\ InitManagerIdle
    /\ InitExecIdle
    /\ InitAggregateIdle
    /\ InitCoordinatorIdle
    /\ chain_config \in ChainConfigs
    /\ chain_hooks = <<>>
    /\ chain_pc = "idle"
    /\ context = NoResult
    /\ chain_results = <<>>
    /\ terminated_early = FALSE
    /\ chain_calls = <<>>
    /\ chain_result = NoResult

ExecuteChain ==
    /\ chain_pc = "idle"
    /\ \E hook_list \in Chains, initial_data \in InitialData :
          execute_chain(hook_list, initial_data)

ChainHookReturns == chain_hook_returns

NextChain == ExecuteChain \/ ChainHookReturns

SpecChain == InitChain /\ [][NextChain]_vars

(***************************************************************************)
(* HookDashboard::update_system_status (dashboard.rs)                      *)
(*                                                                         *)
(* status_tracker is a std::sync::RwLock.  `lock` is "free", "write" while *)
(* a guard of the running call is alive, or "poisoned" after a panic with  *)
(* the guard alive.  Rates and scores are kept as integer cross products   *)
(* of the f64 comparisons of the code.                                     *)
(***************************************************************************)
\* metrics.total_executions: none, at most 10, and more than 10
TotalExecutions == {0, 10, 11}

\* HookMetrics as update_system_status reads them; `slow` is
\* average_execution_time > 5 s
HookMetrics ==
    {[total_executions |-> t, successful_executions |-> k, slow |-> b] :
        t \in TotalExecutions, k \in 0..11, b \in BOOLEAN}

MetricsReadings == {m \in HookMetrics : m.successful_executions <= m.total_executions}

DashboardConfigs ==
    [max_recent_events : 1..MaxRecentEvents, error_rate_threshold : {1, 5}]

\* performance_factor, in tenths
performance_factor(hook_metrics) == IF hook_metrics.slow THEN 8 ELSE 10

\* health_score >= tenths / 10
health_score_at_least(hook_metrics, tenths) ==
    IF hook_metrics.total_executions = 0 THEN TRUE
    ELSE hook_metrics.successful_executions * performance_factor(hook_metrics)
             >= tenths * hook_metrics.total_executions

new_status(hook_metrics) ==
    IF health_score_at_least(hook_metrics, 9) THEN "Healthy"
    ELSE IF health_score_at_least(hook_metrics, 7) THEN "Warning"
    ELSE IF health_score_at_least(hook_metrics, 5) THEN "Error"
    ELSE "Critical"

\* total_executions > 10 && (1.0 - success_rate) > error_rate_threshold
error_rate_alert(hook_metrics, cfg) ==
    /\ hook_metrics.total_executions > 10
    /\ (hook_metrics.total_executions - hook_metrics.successful_executions) * 10
           > cfg.error_rate_threshold * hook_metrics.total_executions

\* add_dashboard_event called with no guard alive: the tracker afterwards.
\* A poisoned lock makes write() return Err and the body is skipped.
add_dashboard_event(tracker, cfg, event) ==
    IF tracker.lock = "poisoned" THEN tracker
    ELSE LET pushed == Append(tracker.recent_events, event)
         IN  [tracker EXCEPT !.recent_events =
                  IF Len(pushed) > cfg.max_recent_events THEN Tail(pushed) ELSE pushed]

\* update_system_status up to its return or, when the status has changed,
\* up to the call of add_dashboard_event at line 610, where `tracker`, the
\* write guard taken at line 604, is still alive.
update_system_status(hook_metrics) ==
    /\ d_pc = "idle"
    /\ LET alerted == IF error_rate_alert(hook_metrics, dashboard_config)
                      THEN add_dashboard_event(status_tracker, dashboard_config,
                                               "ErrorRateAlert")
                      ELSE status_tracker
       IN  /\ d_metrics' = hook_metrics
           /\ d_new_status' = new_status(hook_metrics)
           /\ IF alerted.lock = "poisoned" \/ alerted.system_status = new_status(hook_metrics)
              THEN /\ status_tracker' = alerted
                   /\ d_pc' = "idle"
                   /\ d_result' = "Ok"
              ELSE /\ status_tracker' = [alerted EXCEPT !.system_status = new_status(hook_metrics),
                                                        !.lock = "write"]
                   /\ d_pc' = "add_dashboard_event"
                   /\ d_result' = "none"
    /\ UNCHANGED dashboard_config
    /\ UNCHANGED <<gvars, mvars, xvars, avars, cvars, lvars, hvars, tvars>>

\* self.status_tracker.write() of add_dashboard_event on the thread that
\* holds the write guard: std leaves it open whether the call blocks for
\* ever or panics.  It blocks:
reentrant_write_blocks ==
    /\ d_pc = "add_dashboard_event"
    /\ d_pc' = "blocked"
    /\ UNCHANGED <<status_tracker, dashboard_config, d_metrics, d_new_status, d_result>>
    /\ UNCHANGED <<gvars, mvars, xvars, avars, cvars, lvars, hvars, tvars>>

\* ... or it panics: the guard is dropped while unwinding, which poisons
\* the lock, and the call ends without a return value.
reentrant_write_panics ==
    /\ d_pc = "add_dashboard_event"
    /\ status_tracker' = [status_tracker EXCEPT !.lock = "poisoned"]
    /\ d_pc' = "idle"
    /\ d_result' = "panicked"
    /\ UNCHANGED <<dashboard_config, d_metrics, d_new_status>>
    /\ UNCHANGED <<gvars, mvars, xvars, avars, cvars, lvars, hvars, tvars>>

\* HookDashboard::update_config
update_config(cfg) ==
    /\ d_pc = "idle"
    /\ dashboard_config' = cfg
    /\ status_tracker' = add_dashboard_event(status_tracker, cfg, "ConfigurationChange")
    /\ d_result' = "Ok"
    /\ UNCHANGED <<d_pc, d_metrics, d_new_status>>
    /\ UNCHANGED <<gvars, mvars, xvars, avars, cvars, lvars, hvars, tvars>>

InitDashboard ==
    /\ InitGraphIdle
    /\ InitManagerIdle
    /\ InitExecIdle
    /\ InitAggregateIdle
    /\ InitCoordinatorIdle
    /\ InitChainIdle
    /\ InitTrackedIdle
    /\ status_tracker = NewStatusTracker
    /\ dashboard_config \in DashboardConfigs
    /\ d_pc = "idle"
    /\ d_metrics = NoResult
    /\ d_new_status = "none"
    /\ d_result = "none"

UpdateSystemStatus ==
    /\ d_pc = "idle"
    /\ \E hook_metrics \in MetricsReadings : update_system_status(hook_metrics)

UpdateConfig ==
    /\ d_pc = "idle"
    /\ \E cfg \in DashboardConfigs : update_config(cfg)

NextDashboard ==
    \/ UpdateSystemStatus
    \/ reentrant_write_blocks
    \/ reentrant_write_panics
    \/ UpdateConfig

SpecDashboard == InitDashboard /\ [][NextDashboard]_vars

(***************************************************************************)
(* Properties of HookDashboard::update_system_status                       *)
(***************************************************************************)
\* C39: update_system_status never requests the status_tracker lock while
\* the same call holds it, so the call always terminates: it is never at
\* the write() of add_dashboard_event with its own write guard alive, and
\* it neither blocks for ever nor ends in a panic.
C39_NoLockRequestWhileHeld ==
    /\ ~(d_pc = "add_dashboard_event" /\ status_tracker.lock = "write")
    /\ d_pc # "blocked"
    /\ d_result # "panicked"

\* The status computed from the metrics differs from the stored one, the
\* guard of line 604 is alive and the call has blocked on the second write().
StatusChangeBlocks ==
    /\ d_pc = "blocked"
    /\ status_tracker.lock = "write"
    /\ status_tracker.system_status = "Warning"
    /\ d_new_status = "Warning"
    /\ d_metrics = [total_executions |-> 10, successful_executions |-> 8, slow |-> FALSE]

\* What the code does give: a call that finds the stored status equal to
\* the new one returns Ok with the lock released, and the list of recent
\* events is cut by at most one event per push.
UnchangedStatusReturns ==
    /\ (d_pc = "idle" /\ d_result = "Ok") => status_tracker.lock # "write"
    /\ Len(status_tracker.recent_events) <= MaxRecentEvents

(***************************************************************************)
(* Properties of the fire-and-forget entries of execute_hooks              *)
(***************************************************************************)
\* Entry i is the only entry of the batch with its execution id.
HasOwnId(i) ==
    \A j \in Entries : executions[j].execution_id = executions[i].execution_id => j = i

\* C38: a FireAndForget entry dispatched by execute_hooks is registered
\* while it runs, so that a cancel_all or a cancel_execution of its id
\* issued after execute_hooks has returned sets the flag of every entry
\* that has not finished, and the id of an entry is no longer registered
\* for it once it has finished.
C38_FireAndForgetIsCancellable ==
    [][/\ (c_pc = "done" /\ cancel_all) =>
              \A i \in fire_and_forget : c_state[i] # "returned" => flags'[i]
       /\ \A i \in fire_and_forget :
              (c_pc = "done" /\ c_state[i] # "returned"
                   /\ cancel_execution(executions[i].execution_id)) =>
                  \E j \in fire_and_forget :
                      /\ executions[j].execution_id = executions[i].execution_id
                      /\ flags'[j]
       /\ \A i \in fire_and_forget :
              (c_state[i] = "running" /\ c_state'[i] = "returned") =>
                  ~(/\ executions[i].execution_id \in DOMAIN active_executions'
                    /\ active_executions'[executions[i].execution_id] = i)]_vars

\* What the code does give: once the spawned task has registered its entry
\* and until it returns, an entry with an id of its own is in the map, and
\* a cancel_all sets its flag.
FireAndForgetRunningIsRegistered ==
    [][\A i \in fire_and_forget :
          (c_state'[i] = "running" /\ HasOwnId(i)) =>
              /\ executions[i].execution_id \in DOMAIN active_executions'
              /\ active_executions'[executions[i].execution_id] = i
              /\ (c_state[i] = "running" /\ cancel_all) => flags'[i]]_vars

\* execute_hooks has returned and cancel_all found the map empty, since the
\* spawned task has not started: the flag of the entry stays unset.
FireAndForgetMissedByCancelAll ==
    /\ Len(executions) = 1
    /\ executions[1].mode = "FireAndForget"
    /\ c_pc = "done"
    /\ c_state[1] = "spawned"
    /\ cancel_call = [op |-> "cancel_all"]
    /\ active_executions = <<>>
    /\ ~flags[1]

(***************************************************************************)
(* Properties of the cancellation flag of a tracked execution              *)
(***************************************************************************)
\* The step is a call of cancel, cancel_execution on the registered id or
\* cancel_all with a registered execution.
CancelIsCalled ==
    \/ cancel
    \/ tracked_cancel_execution(TrackedId) /\ TrackedId \in DOMAIN active_executions
    \/ tracked_cancel_all /\ DOMAIN active_executions # {}

\* C37: the cancellation flag of a context is monotonic: no step clears it,
\* a cancel, a cancel_execution of the registered id and a cancel_all with
\* the id registered set it, and the worker (isolated or not), which reads
\* the same flag, returns the cancelled result at its next check; every
\* ExecutionResult with cancelled = true has result.success = false and is
\* produced only with the flag set.
C37_CancellationFlagIsMonotonic ==
    [][/\ cancelled => cancelled'
       /\ CancelIsCalled => cancelled'
       /\ (cancelled /\ x_pc \in {"idle", "check"} /\ x_pc' \notin {x_pc, "panicked"}) =>
              (x_pc' = "done" /\ x_result'.cancelled)
       /\ (x_result' # NoResult /\ x_result'.cancelled) =>
              (~x_result'.success /\ cancelled')
       /\ (t_result' # NoResult /\ t_result'.cancelled) =>
              (~t_result'.success /\ cancelled')]_vars

\* An isolated worker is cancelled through the active map after a failed
\* attempt and the tracked call receives the cancelled result.
C37_Witness ==
    /\ tracked.isolated
    /\ tracked.pc = "cleanup"
    /\ t_result # NoResult
    /\ t_result.cancelled
    /\ ~t_result.success
    /\ t_result.retry_attempts >= 1
    /\ cancelled
    /\ cancel_call = [op |-> "cancel_execution", id |-> TrackedId, returned |-> TRUE]

\* cancel_all reaches a worker that runs in the calling task.
C37_WitnessCancelAll ==
    /\ ~tracked.isolated
    /\ tracked.pc = "execute"
    /\ cancel_call = [op |-> "cancel_all"]
    /\ cancelled
    /\ x_pc = "done"
    /\ x_result.cancelled

\* The flag is set while the last attempt runs: the result is not cancelled.
C37_WitnessSetTooLate ==
    /\ cancelled
    /\ t_result # NoResult
    /\ ~t_result.cancelled
    /\ t_result.success

(***************************************************************************)
(* Properties of execute_chain                                             *)
(***************************************************************************)
Errs(i) == chain_hooks[i].returns = "Err"

RequestsTermination(i) == chain_hooks[i].returns = "Ok" /\ chain_hooks[i].terminate_chain

\* The hooks of the chain that were executed.
Executed == Range(chain_calls)

InListOrder == \A k \in 1..Len(chain_calls) : chain_calls[k] = k

\* With continue_on_failure=false the first executed hook that returns an
\* error ends execute_chain with that error, and no later hook is executed.
FirstErrorIsReturned ==
    (~chain_config.continue_on_failure /\ \E f \in Executed : Errs(f)) =>
        LET f == CHOOSE e \in Executed : Errs(e) /\ \A d \in Executed : Errs(d) => e <= d
        IN  /\ chain_result = [kind |-> "Err", error |-> hook_error(f)]
            /\ Len(chain_calls) = f

\* Every executed hook that returned an error is recorded as a failed
\* result, and the chain result has success=false.
ErrorsAreRecorded ==
    /\ chain_result.kind = "Ok"
    /\ chain_result.success = FALSE
    /\ \A f \in Executed :
          Errs(f) =>
              /\ f <= Len(chain_result.results)
              /\ chain_result.results[f].hook_id = chain_hook_id(f)
              /\ chain_result.results[f].result.success = FALSE
              /\ chain_result.results[f].result.error = Some(hook_error(f))

\* C32 as stated: execute_chain runs the hooks strictly in list order; with
\* continue_on_failure=false the first hook that returns an error makes
\* execute_chain return that error and no later hook is executed; with
\* continue_on_failure=true every hook of a chain that holds an erroring
\* hook is executed, the erroring hook is recorded as a failed result, and
\* the chain result has success=false with one result per hook.
C32_ErrorHandlingInChain ==
    /\ InListOrder
    /\ chain_pc = "done" =>
          /\ FirstErrorIsReturned
          /\ (chain_config.continue_on_failure /\ \E f \in 1..Len(chain_hooks) : Errs(f)) =>
                /\ Executed = 1..Len(chain_hooks)
                /\ ErrorsAreRecorded
                /\ Len(chain_result.results) = Len(chain_hooks)

\* C32 amended: as C32, but with continue_on_failure=true the hooks are
\* executed up to the first one that requests termination (all of them when
\* none does), with one result per executed hook, and success=false when an
\* executed hook returned an error; a chain longer than max_chain_length is
\* rejected before any hook is executed.
C32_ErrorHandlingUnlessTerminated ==
    /\ InListOrder
    /\ chain_pc = "done" =>
          /\ FirstErrorIsReturned
          /\ Len(chain_hooks) > chain_config.max_chain_length =>
                /\ Executed = {}
                /\ chain_result.kind = "Err"
                /\ chain_result.error.kind = "Configuration"
          /\ (/\ chain_config.continue_on_failure
              /\ Len(chain_hooks) <= chain_config.max_chain_length) =>
                /\ chain_result.kind = "Ok"
                /\ Len(chain_result.results) = Len(chain_calls)
                /\ \A i \in 1..Len(chain_hooks) :
                      i \in Executed <=> \A j \in 1..(i - 1) : ~RequestsTermination(j)
                /\ (\E f \in Executed : Errs(f)) => ErrorsAreRecorded

\* continue_on_failure=true: the chain ok, error, ok runs all three hooks.
C32_Witness ==
    /\ chain_pc = "done"
    /\ chain_config.continue_on_failure
    /\ Len(chain_hooks) = 3
    /\ ~Errs(1) /\ Errs(2) /\ ~Errs(3)
    /\ chain_hooks[1].success /\ chain_hooks[3].success
    /\ chain_calls = <<1, 2, 3>>
    /\ chain_result.kind = "Ok"
    /\ Len(chain_result.results) = 3
    /\ ~chain_result.success
    /\ ~chain_result.terminated_early

\* continue_on_failure=false: the same chain stops at the second hook.
C32_WitnessStopsAtError ==
    /\ chain_pc = "done"
    /\ ~chain_config.continue_on_failure
    /\ Len(chain_hooks) = 3
    /\ ~Errs(1) /\ Errs(2) /\ ~Errs(3)
    /\ chain_calls = <<1, 2>>
    /\ chain_result = [kind |-> "Err", error |-> hook_error(2)]

\* continue_on_failure=true: error, then a hook that requests termination,
\* then a hook that is not executed.
C32_WitnessTerminatedAfterError ==
    /\ chain_pc = "done"
    /\ chain_config.continue_on_failure
    /\ Len(chain_hooks) = 3
    /\ Errs(1) /\ RequestsTermination(2)
    /\ chain_calls = <<1, 2>>
    /\ chain_result.kind = "Ok"
    /\ Len(chain_result.results) = 2
    /\ ~chain_result.success

C33_WitnessNoTermination ==
    /\ chain_pc = "done"
    /\ Len(chain_hooks) = 3
    /\ \A i \in 1..3 : chain_hooks[i].returns = "Ok" /\ ~chain_hooks[i].terminate_chain
    /\ chain_calls = <<1, 2, 3>>
    /\ chain_result.kind = "Ok"
    /\ ~chain_result.terminated_early
    /\ DOMAIN chain_result.final_data = {"k1", "k2"}

(***************************************************************************)
(* Properties of the ExecutionCoordinator                                  *)
(***************************************************************************)
\* The number of results of the list that belong to entry i of the batch.
ResultsOf(list, i) == Cardinality({k \in 1..Len(list) : list[k].entry = i})

TrackedEntries == blocking \cup c_async_hooks

\* C16: a Blocking entry starts only when every Blocking entry before it in
\* the input has returned its result and no Blocking entry after it has
\* started; an Async entry starts only when every Blocking entry of the
\* batch has returned its result.
C16_BlockingEntriesRunOneAtATime ==
    [][\A i \in Entries :
          (c_state[i] = "pending" /\ c_state'[i] = "running") =>
              /\ i \in blocking =>
                    /\ \A j \in blocking :
                          j < i => (c_state'[j] = "returned" /\ ResultsOf(all_results', j) = 1)
                    /\ \A j \in blocking : j > i => c_state'[j] = "pending"
                    /\ \A j \in c_async_hooks : c_state'[j] = "pending"
              /\ i \in c_async_hooks =>
                    \A j \in blocking :
                        c_state'[j] = "returned" /\ ResultsOf(all_results', j) = 1]_vars

\* An Async entry that comes first in the input runs after the Blocking
\* entry behind it has returned.
C16_Witness ==
    /\ Len(executions) = 2
    /\ executions[1].mode = "Async"
    /\ executions[2].mode = "Blocking"
    /\ c_state = <<"running", "returned">>
    /\ ResultsOf(all_results, 2) = 1

C16_WitnessTwoBlocking ==
    /\ Len(executions) = 2
    /\ executions[1].mode = "Blocking"
    /\ executions[2].mode = "Blocking"
    /\ c_state = <<"returned", "running">>

\* C17: execute_hooks has returned only if every Blocking and every Async
\* entry of the batch has returned, and the aggregate it returns holds
\* exactly one result per Blocking or Async entry and no other result.
C17_BarrierJoin ==
    /\ c_pc # "done" => c_aggregated = NoResult
    /\ c_pc = "done" =>
          /\ \A i \in TrackedEntries :
                c_state[i] = "returned" /\ ResultsOf(c_aggregated.results, i) = 1
          /\ Len(c_aggregated.results) = Cardinality(TrackedEntries)

C17_Witness ==
    /\ c_pc = "done"
    /\ Len(executions) = 2
    /\ executions[1].mode = "Async"
    /\ executions[2].mode = "Async"
    /\ Len(c_aggregated.successful) = 1
    /\ Len(c_aggregated.failed) = 1
    /\ stats.total_executions = 2

\* C18: a step of a FireAndForget entry's task (its start, its return with
\* any outcome) changes neither all_results nor the statistics nor the
\* returned aggregate nor the position of execute_hooks; the aggregate
\* holds no result of a FireAndForget entry and the statistics count the
\* Blocking and Async results only; and once execute_hooks has returned,
\* its value and the statistics stay as they are.
C18_FireAndForgetIsDetached ==
    [][/\ \A i \in fire_and_forget :
            (c_state[i] \in {"spawned", "running"} /\ c_state'[i] # c_state[i]) =>
                UNCHANGED <<all_results, stats, c_aggregated, c_pc>>
       /\ c_pc' = "done" =>
            /\ \A i \in fire_and_forget : ResultsOf(c_aggregated'.results, i) = 0
            /\ stats'.total_executions = Cardinality(TrackedEntries)
       /\ c_pc = "done" => UNCHANGED <<c_pc, c_aggregated, stats, all_results>>]_vars

\* execute_hooks has returned the result of a Blocking entry while the
\* FireAndForget entry of the batch is still running.
C18_Witness ==
    /\ c_pc = "done"
    /\ Len(executions) = 2
    /\ executions[1].mode = "FireAndForget"
    /\ executions[2].mode = "Blocking"
    /\ c_state = <<"running", "returned">>
    /\ Len(c_aggregated.results) = 1

C18_WitnessFailed ==
    /\ c_pc = "done"
    /\ Len(executions) = 2
    /\ executions[1].mode = "FireAndForget"
    /\ c_state[1] = "returned"
    /\ stats.failed_executions = 0
    /\ stats.total_executions = 1

\* The entries whose context is registered in the active map.
Registered(active) == {active[id] : id \in DOMAIN active}

\* C19: cancel_execution(id) with id registered returns true and sets the
\* flag of the entry registered under id and no other flag; with id not
\* registered it returns false and no flag changes; cancel_all sets the
\* flag of every registered entry and no other flag; no other step changes
\* a flag, and a cancel call changes nothing but flags.
C19_CancelTouchesOnlyItsTargets ==
    [][LET call == cancel_call'
       IN  /\ call.op = "cancel_execution" =>
                IF call.id \in DOMAIN active_executions
                THEN /\ call.returned
                     /\ flags'[active_executions[call.id]]
                     /\ \A j \in Entries \ {active_executions[call.id]} :
                           flags'[j] = flags[j]
                ELSE ~call.returned /\ flags' = flags
           /\ call.op = "cancel_all" =>
                \A j \in Entries :
                    flags'[j] = (flags[j] \/ j \in Registered(active_executions))
           /\ call.op = "none" => flags' = flags
           /\ call.op # "none" =>
                UNCHANGED <<executions, c_pc, c_state, active_executions, all_results,
                            async_results, stats, c_aggregated>>]_vars

\* Two Async entries with different ids are running; the first was
\* cancelled by its id, the second was not touched.
C19_Witness ==
    /\ Len(executions) = 2
    /\ executions[1].mode = "Async" /\ executions[1].execution_id = "e1"
    /\ executions[2].mode = "Async" /\ executions[2].execution_id = "e2"
    /\ c_state = <<"running", "running">>
    /\ cancel_call = [op |-> "cancel_execution", id |-> "e1", returned |-> TRUE]
    /\ flags = <<TRUE, FALSE>>

C19_WitnessNotRegistered ==
    /\ Len(executions) = 2
    /\ c_state = <<"returned", "running">>
    /\ executions[1].execution_id = "e1"
    /\ executions[2].execution_id = "e2"
    /\ cancel_call = [op |-> "cancel_execution", id |-> "e1", returned |-> FALSE]
    /\ flags = <<FALSE, FALSE>>

C19_WitnessCancelAll ==
    /\ Len(executions) = 2
    /\ c_state = <<"running", "running">>
    /\ cancel_call = [op |-> "cancel_all"]
    /\ flags = <<TRUE, TRUE>>

\* C27: the context of an entry is registered in the active map only while
\* its execute_single_tracked is running: an entry whose result was
\* returned is no longer registered, so that once execute_hooks has
\* returned no Blocking or Async entry of the batch is registered, and
\* get_active_executions lists only ids of running executions.
C27_RegisteredOnlyWhileRunning ==
    /\ \A id \in get_active_executions : c_state[active_executions[id]] = "running"
    /\ c_pc = "done" => Registered(active_executions) \cap TrackedEntries = {}

\* C28: the failed join of an isolated entry's worker gives a result with
\* success = false and cancelled = false; execute_hooks goes on, returns
\* only when every entry of the batch has returned, and its aggregate
\* holds one result per entry, the join failures among the failed ones.
C28_JoinFailureBecomesFailureResult ==
    /\ \A k \in 1..Len(all_results) :
           all_results[k].error_details = "Isolation error" =>
               /\ ~all_results[k].success
               /\ ~all_results[k].cancelled
               /\ executions[all_results[k].entry].isolated
    /\ c_pc = "done" =>
           /\ \A i \in TrackedEntries :
                  c_state[i] = "returned" /\ ResultsOf(c_aggregated.results, i) = 1
           /\ \A k \in 1..Len(all_results) :
                  all_results[k].error_details = "Isolation error" =>
                      ResultsOf(c_aggregated.failed, all_results[k].entry) = 1
           /\ stats.total_executions = Len(executions)

\* The join of the first Blocking entry's worker failed and the second
\* Blocking entry ran and succeeded.
C28_Witness ==
    /\ c_pc = "done"
    /\ Len(executions) = 2
    /\ executions[1].mode = "Blocking" /\ executions[1].isolated
    /\ executions[2].mode = "Blocking"
    /\ all_results[1].error_details = "Isolation error"
    /\ Len(c_aggregated.failed) = 1
    /\ Len(c_aggregated.successful) = 1

\* The join of one of two Async entries' workers failed.
C28_WitnessAsync ==
    /\ c_pc = "done"
    /\ Len(executions) = 2
    /\ executions[1].mode = "Async" /\ executions[1].isolated
    /\ executions[2].mode = "Async"
    /\ all_results[1].error_details = "Isolation error"
    /\ all_results[2].success

\* The results of the batches whose execute_hooks has returned.
ReturnedResults ==
    {<<t, k>> : t \in {u \in Tasks : tasks[u].op = "execute_hooks" /\ tasks[u].pc = "done"},
                k \in 1..MaxBatch} \cap
    {<<t, k>> \in Tasks \X (1..MaxBatch) : k <= Len(tasks[t].results)}

ResultAt(p) == tasks[p[1]].results[p[2]]

\* C29: under every interleaving of the operations of the tasks, the
\* shared statistics satisfy total = successful + failed + cancelled, and
\* they count each result of each batch that has returned exactly once,
\* under the counter of its kind; in particular when every batch has
\* returned.
C29_StatsCountEveryResultOnce ==
    /\ stats.total_executions =
           stats.successful_executions + stats.failed_executions + stats.cancelled_executions
    /\ stats.total_executions = Cardinality(ReturnedResults)
    /\ stats.cancelled_executions =
           Cardinality({p \in ReturnedResults : ResultAt(p).cancelled})
    /\ stats.successful_executions =
           Cardinality({p \in ReturnedResults : ~ResultAt(p).cancelled /\ ResultAt(p).success})

\* Two batches of MaxBatch entries each have returned; results of each
\* kind were counted.
C29_Witness ==
    /\ \A t \in Tasks : tasks[t].op = "execute_hooks" /\ tasks[t].pc = "done"
    /\ stats.total_executions = 2 * MaxBatch
    /\ stats.cancelled_executions >= 1
    /\ stats.failed_executions >= 1
    /\ stats.successful_executions >= 1

\* One batch is inside update_stats while the other waits for the lock.
C29_WitnessContended ==
    /\ tasks["t1"].pc = "updating"
    /\ tasks["t2"].pc = "lock_stats"
    /\ Len(tasks["t1"].results) = MaxBatch
    /\ Len(tasks["t2"].results) = MaxBatch

\* C30: no task is suspended in an `.await` (on a capability, a timeout, a
\* retry delay, a join or a lock) while it holds the lock of the active
\* map or the lock of the statistics.
C30_NoLockHeldAcrossAwait ==
    \A t \in Tasks : tasks[t].pc \in SuspensionPoints => tasks[t].held = {}

\* The part of C30 that the code satisfies: the lock of the statistics is
\* never held across an `.await`, and the lock of the active map only by
\* cancel_execution and cancel_all while they await a context's cancel().
C30_OnlyCancelHoldsAcrossAwait ==
    \A t \in Tasks :
        (tasks[t].pc \in SuspensionPoints /\ tasks[t].held # {}) =>
            /\ tasks[t].op \in {"cancel_execution", "cancel_all"}
            /\ tasks[t].pc = "cancel_await"
            /\ tasks[t].held = {"active"}

(***************************************************************************)
(* Properties of AggregatedResults                                         *)
(***************************************************************************)
\* C12: has_critical_failures() is true if and only if some result that
\* failed and was not cancelled has config.required = true; a cancelled or
\* a successful required result does not make it true.
C12_CriticalIffRequiredFailedNotCancelled ==
    aggregated # NoResult =>
        (has_critical_failures(aggregated) <=>
            \E i \in 1..Len(results) :
                ~results[i].success /\ ~results[i].cancelled /\ results[i].required)

\* Required results that are cancelled (one of them failed as well) or
\* successful, and no critical failure.
C12_Witness ==
    /\ aggregated # NoResult
    /\ Len(results) = 3
    /\ results[1].required /\ results[1].cancelled /\ ~results[1].success
    /\ results[2].required /\ results[2].success /\ ~results[2].cancelled
    /\ ~results[3].required /\ ~results[3].success /\ ~results[3].cancelled
    /\ ~has_critical_failures(aggregated)

\* The number of entries of the list that carry the execution id.
Occurrences(list, id) == Cardinality({k \in 1..Len(list) : list[k].execution_id = id})

\* C13: from_results puts every result in exactly one of cancelled, failed,
\* successful: a cancelled result in cancelled whatever its success, a
\* failed one that is not cancelled in failed, the others in successful;
\* and success_rate is |successful| / n for n > 0 results, 0 for none.
C13_PartitionAndSuccessRate ==
    aggregated # NoResult =>
        /\ \A i \in 1..Len(results) :
              /\ Occurrences(aggregated.cancelled, i) + Occurrences(aggregated.failed, i)
                     + Occurrences(aggregated.successful, i) = 1
              /\ results[i].cancelled => results[i] \in Range(aggregated.cancelled)
              /\ (~results[i].cancelled /\ ~results[i].success) =>
                     results[i] \in Range(aggregated.failed)
              /\ (~results[i].cancelled /\ results[i].success) =>
                     results[i] \in Range(aggregated.successful)
        /\ Len(aggregated.cancelled) + Len(aggregated.failed) + Len(aggregated.successful)
               = Len(results)
        /\ Len(results) > 0 =>
               aggregated.success_rate.num * Len(results)
                   = Len(aggregated.successful) * aggregated.success_rate.den
        /\ Len(results) = 0 => aggregated.success_rate.num = 0

C13_Witness ==
    /\ aggregated # NoResult
    /\ Len(results) = 3
    /\ results[1].cancelled /\ ~results[1].success
    /\ results[2].cancelled /\ results[2].success
    /\ ~results[3].cancelled /\ results[3].success
    /\ aggregated.success_rate = ratio(1, 3)

(***************************************************************************)
(* Properties of execute_with_context                                      *)
(***************************************************************************)
\* Every call of execute the retry budget allows has the given outcome.
EveryAttempt(outcome) == \A k \in 1..(config.max_retries + 1) : capability[k] = outcome

C9_CancelledBeforeStart ==
    [][/\ (x_pc = "idle" /\ cancelled /\ x_pc' # "idle") =>
            /\ x_pc' = "done"
            /\ x_result'.cancelled
            /\ ~x_result'.success
            /\ x_result'.retry_attempts = 0
            /\ call_count' = 0
       /\ (x_pc = "done" /\ x_result.cancelled) =>
            (x_pc' = "done" /\ call_count' = call_count /\ x_result' = x_result)]_vars

C9_Witness ==
    /\ x_pc = "done"
    /\ x_result.cancelled
    /\ x_result.error_details = Some(PreExecutionCancellation)
    /\ call_count = 0
    /\ capability[1] = "success"

\* C10: every attempt in progress, whichever its number, is raced against
\* the timeout; an attempt that times out uses up one attempt of the retry
\* budget like a failed one; and when every attempt times out (the flag
\* never set) the result is a failure, not cancelled, whose error text
\* contains "timed out".
C10_EveryAttemptIsTimeBounded ==
    /\ x_pc = "attempt" => timeout_armed
    /\ (x_pc \in {"check", "sleep"} /\ call_count > 0 /\ capability[call_count] = "timeout")
           => retry_attempts = call_count
    /\ (x_pc = "done" /\ ~cancelled /\ EveryAttempt("timeout")) =>
           /\ call_count = config.max_retries + 1
           /\ ~x_result.success
           /\ ~x_result.cancelled
           /\ x_result.retry_attempts = config.max_retries
           /\ contains(x_result.error.text, TimedOut)
           /\ contains(x_result.error_details.text, TimedOut)

C10_Witness ==
    /\ x_pc = "done"
    /\ ~cancelled
    /\ EveryAttempt("timeout")
    /\ config.max_retries = MaxRetries
    /\ call_count = MaxRetries + 1
    /\ contains(x_result.error_details.text, TimedOut)

\* C24: the capability is invoked at most max_retries + 1 times, and a call
\* of execute_with_context that has returned after fewer invocations
\* returned a successful result or a cancelled one: every failed attempt,
\* an Err as well as a result with success = false, is retried while
\* budget remains.
C24_FailuresConsumeRetryBudget ==
    /\ call_count <= config.max_retries + 1
    /\ (x_pc = "done" /\ call_count < config.max_retries + 1) =>
           (x_result.success \/ x_result.cancelled)

\* The part of C24 that the code satisfies: at most max_retries + 1
\* invocations, and an attempt that returns Err or times out is retried
\* while budget remains.
C24_ErrorsConsumeRetryBudget ==
    /\ call_count <= config.max_retries + 1
    /\ (x_pc = "done" /\ call_count < config.max_retries + 1) =>
           \/ x_result.success
           \/ x_result.cancelled
           \/ capability[call_count] = "failure_result"

\* C25: when the attempt in progress succeeds, say after k earlier
\* invocations, execute_with_context returns at that step a result with
\* success = true, cancelled = false and retry_attempts = k, without
\* entering the retry delay; and once it has returned, the capability is
\* not invoked again.
C25_SuccessReturnsAtOnce ==
    [][/\ (x_pc = "attempt" /\ capability[call_count] = "success" /\ x_pc' # "attempt") =>
            /\ x_pc' = "done"
            /\ x_result'.success
            /\ ~x_result'.cancelled
            /\ x_result'.retry_attempts = call_count - 1
            /\ call_count' = call_count
       /\ (x_pc = "done" /\ x_result.success) =>
            (x_pc' = "done" /\ call_count' = call_count /\ x_result' = x_result)]_vars

\* The first success comes on the last invocation the budget allows, after
\* retry delays that were slept.
C25_Witness ==
    /\ x_pc = "done"
    /\ x_result.success
    /\ config.max_retries = MaxRetries
    /\ config.retry_delay > 0
    /\ call_count = MaxRetries + 1
    /\ x_result.retry_attempts = MaxRetries

HookFailed(i) == hook_state[i] = "returned" /\ ~hook_success[i]

Tracked(i) == registry[i].mode # "FireAndForget"

IndexOfId(id) == CHOOSE i \in Indices : registry[i].id = id

\* The dependency level of a hook among the hooks of the event: one more
\* than the deepest of its dependencies that are registered for the event.
RECURSIVE DependencyLevel(_)
DependencyLevel(i) ==
    LET in_set == {d \in Range(registry[i].depends_on) :
                      \E j \in Indices : registry[j].id = d}
    IN  IF in_set = {} THEN 1
        ELSE 1 + DependencyLevel(
                     CHOOSE j \in {IndexOfId(d) : d \in in_set} :
                         \A k \in {IndexOfId(d) : d \in in_set} :
                             DependencyLevel(k) <= DependencyLevel(j))

\* C4: when trigger_event has returned and a required hook failed during
\* it, the value returned is an error that names that hook.
C4_RequiredFailureIsReported ==
    m_pc = "done" =>
        \A i \in Indices :
            (HookFailed(i) /\ registry[i].required) =>
                /\ trigger_result.kind = "Execution"
                /\ get_hook_description(registry[i]) \in Range(trigger_result.names)

\* C5: when trigger_event has returned and every hook that failed during
\* it is non-required, the value returned is Ok.
C5_NonRequiredFailuresAreSwallowed ==
    (m_pc = "done" /\ \A i \in Indices : HookFailed(i) => ~registry[i].required) =>
        trigger_result.kind = "Ok"

\* C6: a hook starts only when every tracked (Blocking or Async) hook of
\* every earlier dependency level has returned; in particular when each of
\* its dependencies among the hooks of the event has returned.
C6_NoStartBeforeEarlierLevelsReturned ==
    [][\A h \in Indices :
          (hook_state[h] = "pending" /\ hook_state'[h] # "pending") =>
              \A d \in Indices :
                  (Tracked(d) /\ DependencyLevel(d) < DependencyLevel(h)) =>
                      hook_state'[d] = "returned"]_vars

C18_ManagerTaskIsDetached ==
    [][/\ \A i \in fire_and_forget_hooks :
            (hook_state[i] = "spawned" /\ hook_state'[i] # hook_state[i]) =>
                UNCHANGED <<trigger_result, successful, failed, m_pc, hook_success>>
       /\ m_pc' = "done" =>
            Len(successful') + Len(failed')
                = Cardinality({i \in Indices : Tracked(i) /\ hook_state'[i] = "returned"})]_vars

C18_ManagerWitness ==
    /\ m_pc = "done"
    /\ \E i \in fire_and_forget_hooks : hook_state[i] = "spawned"
    /\ \E i \in Indices : Tracked(i) /\ hook_state[i] = "returned"

\* C20: trigger_event on a disabled manager, and trigger_event for an event
\* without matching hooks, returns Ok, and no hook is ever started, spawned
\* or recorded as successful or failed.
C20_DisabledOrEmptyReturnsOk ==
    (~enabled \/ get_matching_hooks = <<>>) =>
        /\ \A i \in Indices : hook_state[i] = "pending"
        /\ successful = <<>>
        /\ failed = <<>>
        /\ m_pc \in {"idle", "done"}
        /\ m_pc = "done" => trigger_result = Ok

\* A disabled manager whose registry holds a required Blocking hook, an
\* Async hook and a FireAndForget hook has returned.
C20_Witness ==
    /\ ~enabled
    /\ m_pc = "done"
    /\ Len(registry) = 3
    /\ registry[1].mode = "Blocking" /\ registry[1].required
    /\ registry[2].mode = "Async"
    /\ registry[3].mode = "FireAndForget"

C20_WitnessNoMatchingHooks ==
    /\ enabled
    /\ get_matching_hooks = <<>>
    /\ m_pc = "done"
    /\ trigger_result = Ok

\* Some Blocking or Async hook was executed by trigger_event and returned.
ExecutedSomeHook == \E i \in Indices : Tracked(i) /\ hook_state[i] = "returned"

\* C21: once trigger_event has returned, the metrics of the manager count
\* the hooks it executed: total_executions > 0 when at least one Blocking
\* or Async hook was executed, failed_executions > 0 when one of them
\* failed, and total_executions = 0 on a disabled manager.
C21_MetricsReflectExecutions ==
    m_pc = "done" =>
        /\ ExecutedSomeHook => metrics.total_executions > 0
        /\ (\E i \in Indices : Tracked(i) /\ HookFailed(i)) =>
               metrics.failed_executions > 0
        /\ ~enabled => metrics.total_executions = 0

\* The part of C21 that the code satisfies: the metrics of a disabled
\* manager stay at zero after trigger_event.
C21_DisabledMetricsStayZero ==
    (m_pc = "done" /\ ~enabled) => metrics.total_executions = 0

\* C22: once trigger_event has returned after a required hook failed, the
\* value returned is Ok and the failure is counted in failed_executions.
C22_RequiredFailureStillReturnsOk ==
    (m_pc = "done" /\ \E i \in Indices :
                          Tracked(i) /\ registry[i].required /\ HookFailed(i)) =>
        /\ trigger_result = Ok
        /\ metrics.failed_executions > 0

(***************************************************************************)
(* Properties of the dependency graph                                      *)
(***************************************************************************)
\* Some hook of the graph declares a dependency id that is not the id of a
\* hook of the graph.
DeclaresAbsentDependency ==
    \E id \in DOMAIN hooks :
        \E i \in 1..Len(hooks[id].depends_on) : hooks[id].depends_on[i] \notin DOMAIN hooks

\* C11: validate_dependencies returns an error if and only if some hook of
\* the graph declares a dependency id that is not the id of a hook of the
\* graph; the error names such a hook and such a dependency.
C11_ValidateDependenciesFailsIffAbsent ==
    validation.kind # "None" =>
        /\ validation.kind = "Configuration" <=> DeclaresAbsentDependency
        /\ validation.kind = "Configuration" =>
               /\ validation.hook \in DOMAIN hooks
               /\ validation.dep \in Range(hooks[validation.hook].depends_on)
               /\ validation.dep \notin DOMAIN hooks

\* A hook with one present and one absent dependency is reported; and a
\* graph with dependencies that are all present is accepted.
C11_Witness ==
    /\ validation.kind = "Configuration"
    /\ \E id \in DOMAIN hooks :
          /\ Len(hooks[id].depends_on) = 2
          /\ hooks[id].depends_on[1] \in DOMAIN hooks
          /\ hooks[id].depends_on[2] \notin DOMAIN hooks

\* The ids reachable from id over one or more forward edges of deps_map.
RECURSIVE ReachFrom(_, _)
ReachFrom(deps_map, frontier) ==
    LET next == frontier \cup UNION {Range(Get(deps_map, x)) : x \in frontier}
    IN  IF next = frontier THEN frontier ELSE ReachFrom(deps_map, next)

Reachable(deps_map, id) == ReachFrom(deps_map, Range(Get(deps_map, id)))

Acyclic(deps_map) == \A id \in DOMAIN deps_map : id \notin Reachable(deps_map, id)

LevelOf(levels, id) == CHOOSE i \in 1..Len(levels) : id \in Range(levels[i])

InPlan(levels, id) == \E i \in 1..Len(levels) : id \in Range(levels[i])

\* C1: in the plan returned by get_ordered_hooks(event), every hook sits in
\* a strictly later level than each of its dependencies that is registered
\* for the same event (the forward edges are acyclic in every reachable
\* graph, see C2).
C1_DependenciesInEarlierLevels ==
    (plan.kind = "Ok" /\ Acyclic(dependencies)) =>
        \A id \in event_hooks(plan.event) :
            \A d \in Range(hooks[id].depends_on) \cap event_hooks(plan.event) :
                /\ InPlan(plan.levels, id)
                /\ InPlan(plan.levels, d)
                /\ LevelOf(plan.levels, d) < LevelOf(plan.levels, id)

\* The ready sets of the rounds of topological_sort, from the given in-degrees
\* on: the hooks whose in-degree is 0 when the round begins.
RECURSIVE ReadySets(_)
ReadySets(in_degree) ==
    LET ready == {id \in DOMAIN in_degree : in_degree[id] = 0}
    IN  IF ready = {} THEN <<>>
        ELSE <<ready>> \o ReadySets(decrement_dependents(in_degree, ready))

AscendingPriority(level) ==
    \A i, j \in 1..Len(level) : i < j => hooks[level[i]].priority <= hooks[level[j]].priority

\* The levels of one round: the parallel hooks of the ready set as one level
\* in ascending priority (no level when there is none), then every
\* sequential hook of the ready set as a level of its own, in ascending
\* priority.
RoundShape(round, ready) ==
    LET par == {id \in ready : hooks[id].parallel}
        sq == ready \ par
        k == IF par = {} THEN 0 ELSE 1
    IN  /\ Len(round) = k + Cardinality(sq)
        /\ k = 1 => /\ Range(round[1]) = par
                    /\ Len(round[1]) = Cardinality(par)
                    /\ AscendingPriority(round[1])
        /\ \A j \in (k + 1)..Len(round) : Len(round[j]) = 1 /\ round[j][1] \in sq
        /\ \A i, j \in (k + 1)..Len(round) :
              i < j => /\ round[i][1] # round[j][1]
                       /\ hooks[round[i][1]].priority <= hooks[round[j][1]].priority

NumLevels(ready) ==
    (IF \E id \in ready : hooks[id].parallel THEN 1 ELSE 0)
        + Cardinality({id \in ready : ~hooks[id].parallel})

RECURSIVE RoundsMatch(_, _)
RoundsMatch(levels, ready_sets) ==
    IF ready_sets = <<>> THEN levels = <<>>
    ELSE LET n == NumLevels(Head(ready_sets))
         IN  /\ Len(levels) >= n
             /\ RoundShape(SubSeq(levels, 1, n), Head(ready_sets))
             /\ RoundsMatch(SubSeq(levels, n + 1, Len(levels)), Tail(ready_sets))

\* The graph holds exactly A = h1 without dependencies and B = h2, C = h3
\* that each depend on A, all for the event of the plan.
IsFanOut ==
    /\ event_hooks(plan.event) = HookIds
    /\ hooks["h1"].depends_on = <<>>
    /\ hooks["h2"].depends_on = <<"h1">>
    /\ hooks["h3"].depends_on = <<"h1">>

\* C14: the plan is the concatenation, round by round, of the parallel ready
\* hooks as one level (ascending priority) followed by each sequential ready
\* hook as a singleton level (ascending priority); A with parallel B and C
\* that depend on A gives [[A],[B,C]], and with sequential B and C gives
\* [[A],[B],[C]] with B and C in priority order.
C14_RoundsEmitParallelLevelThenSingletons ==
    plan.kind = "Ok" =>
        /\ RoundsMatch(plan.levels, ReadySets(initial_in_degree(event_hooks(plan.event))))
        /\ (IsFanOut /\ hooks["h2"].parallel /\ hooks["h3"].parallel) =>
               /\ Len(plan.levels) = 2
               /\ plan.levels[1] = <<"h1">>
               /\ Range(plan.levels[2]) = {"h2", "h3"}
               /\ AscendingPriority(plan.levels[2])
        /\ (IsFanOut /\ ~hooks["h2"].parallel /\ ~hooks["h3"].parallel) =>
               /\ Len(plan.levels) = 3
               /\ plan.levels[1] = <<"h1">>
               /\ {plan.levels[2], plan.levels[3]} = {<<"h2">>, <<"h3">>}
               /\ hooks[plan.levels[2][1]].priority <= hooks[plan.levels[3][1]].priority

\* A round with a parallel group of two and a sequential hook of lower
\* priority value: the parallel level still comes first.
C14_Witness ==
    /\ plan.kind = "Ok"
    /\ event_hooks(plan.event) = HookIds
    /\ \A id \in HookIds : hooks[id].depends_on = <<>>
    /\ hooks["h1"].parallel /\ hooks["h1"].priority = 2
    /\ hooks["h2"].parallel /\ hooks["h2"].priority = 1
    /\ ~hooks["h3"].parallel /\ hooks["h3"].priority = 1
    /\ plan.levels = <<<<"h2", "h1">>, <<"h3">>>>

C14_WitnessFanOut ==
    /\ plan.kind = "Ok"
    /\ IsFanOut
    /\ ~hooks["h2"].parallel /\ hooks["h2"].priority = 2
    /\ ~hooks["h3"].parallel /\ hooks["h3"].priority = 1
    /\ plan.levels = <<<<"h1">>, <<"h3">>, <<"h2">>>>

\* C15: two calls of get_ordered_hooks for the same event type with the same
\* hook definitions in the graph return the same levels, with the same
\* order of hooks inside each level.
C15_PlanIsDeterministic ==
    [][(plan.kind = "Ok" /\ plan'.kind = "Ok" /\ plan'.event = plan.event /\ hooks' = hooks)
          => plan'.levels = plan.levels]_vars

\* C2: the forward dependency edges stored in the graph never contain a
\* cycle, whatever add_hook calls were made; so adding X with deps [Y] and
\* then Y with deps [X] is rejected with a Configuration error.
C2_ForwardEdgesAcyclic == Acyclic(dependencies)

C2_Witness ==
    /\ add_result = [kind |-> "Configuration", dep |-> "h1", hook |-> "h2"]
    /\ "h1" \in DOMAIN hooks
    /\ dependencies["h1"] = <<"h2">>
    /\ "h2" \notin DOMAIN hooks

\* C3: a step whose add_hook call is rejected with the circular-dependency
\* error leaves hooks, dependencies and dependents as they were.
C3_RejectedAddLeavesGraphUnchanged ==
    [][(adds' = adds + 1 /\ add_result'.kind = "Configuration") =>
           (hooks' = hooks /\ dependencies' = dependencies /\ dependents' = dependents)]_vars

C3_Witness ==
    /\ add_result.kind = "Configuration"
    /\ add_result.hook \notin DOMAIN hooks
    /\ DOMAIN hooks # {}
    /\ \A id \in DOMAIN dependents : add_result.hook \notin Range(dependents[id])

\* The hooks stored for the event, and the dependencies of a hook that are
\* among them.
RegisteredFor(event) == {id \in DOMAIN hooks : hooks[id].event = event}

InSetDependencies(id, event) == Range(hooks[id].depends_on) \cap RegisteredFor(event)

\* The forward edges between the hooks stored for the event.
InSetMap(event) ==
    [id \in RegisteredFor(event) |->
        SelectSeq(hooks[id].depends_on, LAMBDA d : d \in RegisteredFor(event))]

\* The number of edges of the longest path of forward edges that starts at
\* id and stays among the hooks stored for the event.
RECURSIVE InSetDepth(_, _)
InSetDepth(id, event) ==
    LET below == {InSetDepth(d, event) : d \in InSetDependencies(id, event)}
    IN  IF below = {} THEN 0 ELSE 1 + CHOOSE n \in below : \A m \in below : m <= n

\* The number of levels the first k rounds emit.
RECURSIVE LevelsThrough(_, _)
LevelsThrough(rounds, k) ==
    IF k = 0 \/ rounds = <<>> THEN 0
    ELSE NumLevels(Head(rounds)) + LevelsThrough(Tail(rounds), k - 1)

\* C31: in get_ordered_hooks(event) a dependency on a hook that is not
\* stored for that event (stored for another event, or absent) counts as
\* satisfied: the call fails only if the edges between the event's own hooks
\* hold a cycle; a hook without a dependency among the event's hooks is
\* emitted in the first round, before every hook that has one; and every
\* hook is emitted no later than the round that follows its longest path of
\* dependencies among the event's hooks.
C31_OutsideDependenciesAreSatisfied ==
    plan.kind # "None" =>
        LET set == RegisteredFor(plan.event)
            rounds == ReadySets(initial_in_degree(set))
        IN  /\ plan.kind = "Configuration" => ~Acyclic(InSetMap(plan.event))
            /\ plan.kind = "Ok" =>
                  \A id \in set :
                      /\ InPlan(plan.levels, id)
                      /\ LevelOf(plan.levels, id)
                             <= LevelsThrough(rounds, InSetDepth(id, plan.event) + 1)
                      /\ InSetDependencies(id, plan.event) = {} =>
                             \A x \in set :
                                 InSetDependencies(x, plan.event) # {} =>
                                     /\ InPlan(plan.levels, x)
                                     /\ LevelOf(plan.levels, id) < LevelOf(plan.levels, x)

\* h2 depends on h1, which is stored for the other event, and h3 depends on
\* h1 and on h2: the plan of their event is h2, then h3.
C31_Witness ==
    /\ plan.kind = "Ok"
    /\ DOMAIN hooks = HookIds
    /\ hooks["h1"].event # plan.event
    /\ hooks["h2"].event = plan.event /\ hooks["h2"].depends_on = <<"h1">>
    /\ hooks["h3"].event = plan.event /\ hooks["h3"].depends_on = <<"h1", "h2">>
    /\ plan.levels = <<<<"h2">>, <<"h3">>>>

\* The dependency h1 is not in the graph at all.
C31_WitnessAbsent ==
    /\ plan.kind = "Ok"
    /\ DOMAIN hooks = {"h2", "h3"}
    /\ hooks["h2"].event = plan.event /\ hooks["h2"].depends_on = <<"h1">>
    /\ hooks["h3"].event = plan.event /\ hooks["h3"].depends_on = <<"h1", "h2">>
    /\ plan.levels = <<<<"h2">>, <<"h3">>>>

\* How often id appears in the levels of a plan.
RECURSIVE OccurrencesInPlan(_, _)
OccurrencesInPlan(levels, id) ==
    IF levels = <<>> THEN 0
    ELSE Count(Head(levels), id) + OccurrencesInPlan(Tail(levels), id)

\* C34: whenever get_ordered_hooks(event) succeeds, every hook stored for
\* that event appears in the plan exactly once, the plan holds no hook of
\* another event, and no level of the plan is empty.
C34_PlanHoldsEachEventHookOnce ==
    plan.kind = "Ok" =>
        /\ \A id \in RegisteredFor(plan.event) : OccurrencesInPlan(plan.levels, id) = 1
        /\ \A i \in 1..Len(plan.levels) :
              /\ plan.levels[i] # <<>>
              /\ Range(plan.levels[i]) \subseteq RegisteredFor(plan.event)

\* Two hooks of the event of the plan, the second depending on the first,
\* and a third hook stored for the other event.
C34_Witness ==
    /\ plan.kind = "Ok"
    /\ DOMAIN hooks = HookIds
    /\ Cardinality(RegisteredFor(plan.event)) = 2
    /\ \E id \in RegisteredFor(plan.event) : InSetDependencies(id, plan.event) # {}
    /\ Len(plan.levels) = 2

\* The event has no hook: the plan is empty.
C34_WitnessNoHooks ==
    /\ plan.kind = "Ok"
    /\ DOMAIN hooks # {}
    /\ RegisteredFor(plan.event) = {}
    /\ plan.levels = <<>>

\* C35: whatever add_hook calls built the graph, get_ordered_hooks does not
\* return the circular-dependency error, for any event type.
C35_NoCircularDependencyError == plan.kind # "Configuration"

\* A chain of three hooks of one event, planned after four add_hook calls
\* (so one id was added twice or one call was rejected).
C35_Witness ==
    /\ plan.kind = "Ok"
    /\ adds = MaxAdds
    /\ RegisteredFor(plan.event) = HookIds
    /\ \E a, b, c \in HookIds :
          /\ {a, b, c} = HookIds
          /\ hooks[a].depends_on = <<>>
          /\ hooks[b].depends_on = <<a>>
          /\ hooks[c].depends_on = <<b>>
          /\ LevelOf(plan.levels, a) < LevelOf(plan.levels, b)
          /\ LevelOf(plan.levels, b) < LevelOf(plan.levels, c)

\* C36: after any sequence of add_hook calls the reverse-edge map is the
\* inverse of the forward-edge map: b is listed among the dependents of a
\* as many times as a is listed among the stored dependencies of b.
C36_DependentsInverseOfDependencies ==
    \A a \in DOMAIN dependents \cup HookIds :
        \A b \in DOMAIN dependencies \cup HookIds :
            Count(Get(dependents, a), b) = Count(Get(dependencies, b), a)

\* The part of C36 the code keeps: every stored dependency has its reverse
\* entry (the reverse map may hold more).
C36_DependentsCoverDependencies ==
    \A a \in DOMAIN dependents \cup HookIds :
        \A b \in DOMAIN dependencies \cup HookIds :
            Count(Get(dependents, a), b) >= Count(Get(dependencies, b), a)

\* The number of edges of the longest path of forward edges that starts at
\* id (defined for an acyclic map).
RECURSIVE PathLength(_, _)
PathLength(deps_map, id) ==
    LET below == {PathLength(deps_map, d) : d \in Range(Get(deps_map, id))}
    IN  IF below = {} THEN 0 ELSE 1 + CHOOSE n \in below : \A m \in below : m <= n

LongestPath ==
    LET lengths == {PathLength(dependencies, id) : id \in DOMAIN hooks}
    IN  IF lengths = {} THEN 0 ELSE CHOOSE n \in lengths : \A m \in lengths : m <= n

\* C23: for an acyclic graph, get_stats returns the number of stored hooks,
\* the number of stored hooks that declare at least one dependency, and the
\* number of edges of the longest path of forward dependency edges.
C23_StatsOfAcyclicGraph ==
    (graph_stats.kind = "DependencyStats" /\ Acyclic(dependencies)) =>
        /\ graph_stats.total_hooks = Cardinality(DOMAIN hooks)
        /\ graph_stats.hooks_with_dependencies =
               Cardinality({id \in DOMAIN hooks : hooks[id].depends_on # <<>>})
        /\ graph_stats.max_dependency_depth = LongestPath

\* The chain h1 <- h2 <- h3 gives 3, 2, 2.
C23_Witness ==
    /\ DOMAIN hooks = {"h1", "h2", "h3"}
    /\ dependencies["h1"] = <<>>
    /\ dependencies["h2"] = <<"h1">>
    /\ dependencies["h3"] = <<"h2">>
    /\ graph_stats = [kind |-> "DependencyStats", total_hooks |-> 3,
                      hooks_with_dependencies |-> 2, max_dependency_depth |-> 2]

\* A diamond: h2 and h3 share the dependency h1, and h4 depends on both.
C23_WitnessDiamond ==
    /\ DOMAIN hooks = {"h1", "h2", "h3", "h4"}
    /\ dependencies["h1"] = <<>>
    /\ dependencies["h2"] = <<"h1">>
    /\ dependencies["h3"] = <<"h1">>
    /\ dependencies["h4"] = <<"h2", "h3">>
    /\ graph_stats.kind = "DependencyStats"
    /\ graph_stats.max_dependency_depth = 2

\* A dependency reached along two paths of different lengths.
C23_WitnessTwoPaths ==
    /\ dependencies = [id \in {"h1", "h2", "h3", "h4"} |->
                          CASE id = "h1" -> <<>>
                            [] id = "h2" -> <<"h1">>
                            [] id = "h3" -> <<"h2">>
                            [] id = "h4" -> <<"h2", "h3">>]
    /\ graph_stats.kind = "DependencyStats"
    /\ graph_stats.max_dependency_depth = 3

====
